---- MODULE Spec2Model ----
(***************************************************************************)
(* Verification model of the vircadia-web-sdk entity serialisation core:   *)
(*   - DataView 128-bit extensions   (domain/shared/DataViewExtensions.ts) *)
(*   - OctreePacketData typed appenders     (bundled in ShapeEntityItem.ts)*)
(*   - the entity edit encoder that drives the appenders.                  *)
(*                                                                         *)
(* Numbers wider than TLC's integers (uint32, uint64, uint128, float32     *)
(* limits) are kept as little-endian base-256 digit sequences, so widths   *)
(* and byte orders are computed, not assumed.                              *)
(***************************************************************************)
EXTENDS Integers, Sequences, FiniteSets, TLC

(***************************************************************************)
(* Bounds of the model.                                                    *)
(***************************************************************************)
\* Largest DataView byteLength explored for a single appender call.
MaxBufLen == 19
\* Largest write offset explored for a single appender call.
MaxOffset == 2
\* Number of appender calls in one sequence on the same packet context.
MaxCalls == 2

(***************************************************************************)
(* Unsigned magnitudes as little-endian base-256 digit sequences.          *)
(***************************************************************************)
Byte == 0..255

RECURSIVE Norm(_)
\* Strip the most significant zero digits.
Norm(d) == IF d = << >> THEN d
           ELSE IF d[Len(d)] = 0 THEN Norm(SubSeq(d, 1, Len(d) - 1)) ELSE d

RECURSIVE Nat2Dig(_)
\* The digits of a small natural number.
Nat2Dig(n) == IF n = 0 THEN << >> ELSE <<n % 256>> \o Nat2Dig(n \div 256)

\* Digit i (0 = least significant) of a magnitude, 0 beyond its length.
DigitAt(d, i) == IF i + 1 <= Len(d) THEN d[i + 1] ELSE 0

\* The low w digits, padded to exactly w digits: d mod 2^(8w).
LowDigits(d, w) == [i \in 1..w |-> DigitAt(d, i - 1)]

\* d >> (8 * w).
ShiftRightDigits(d, w) == IF Len(d) <= w THEN << >> ELSE SubSeq(d, w + 1, Len(d))

\* d << (8 * w).
ShiftLeftDigits(d, w) == IF Norm(d) = << >> THEN << >> ELSE [i \in 1..w |-> 0] \o d

RECURSIVE DigLess(_, _)
\* a < b for normalised magnitudes.
DigLess(a, b) ==
    IF Len(a) # Len(b) THEN Len(a) < Len(b)
    ELSE IF a = << >> THEN FALSE
    ELSE IF a[Len(a)] # b[Len(b)] THEN a[Len(a)] < b[Len(b)]
    ELSE DigLess(SubSeq(a, 1, Len(a) - 1), SubSeq(b, 1, Len(b) - 1))

DigLE(a, b) == Norm(a) = Norm(b) \/ DigLess(Norm(a), Norm(b))

RECURSIVE AddCarry(_, _, _)
\* a + b + c for magnitudes, with carry propagation.
AddCarry(a, b, c) ==
    IF a = << >> /\ b = << >> THEN (IF c = 0 THEN << >> ELSE <<c>>)
    ELSE LET s == DigitAt(a, 0) + DigitAt(b, 0) + c
         IN  <<s % 256>> \o AddCarry(ShiftRightDigits(a, 1), ShiftRightDigits(b, 1), s \div 256)

DigAdd(a, b) == Norm(AddCarry(a, b, 0))

\* 2^(8w) - d for 0 < d < 2^(8w): the two's complement in w digits.
TwosComplement(d, w) ==
    LowDigits(AddCarry([i \in 1..w |-> 255 - DigitAt(d, i - 1)], <<1>>, 0), w)

(***************************************************************************)
(* JavaScript values.  Every value is a record tagged by t; the payload    *)
(* fields are named per type.                                              *)
(***************************************************************************)
Undefined == [t |-> "undefined"]
Bool(b) == [t |-> "boolean", b |-> b]
\* A finite integral number from its sign and magnitude.
Num(neg, mag) == [t |-> "number", k |-> "fin", neg |-> neg, mag |-> Norm(mag)]
\* A small non-negative number literal.
N(n) == Num(FALSE, Nat2Dig(n))
NaN == [t |-> "number", k |-> "nan", neg |-> FALSE, mag |-> << >>]
Infinity(neg) == [t |-> "number", k |-> "inf", neg |-> neg, mag |-> << >>]
BigInt(neg, mag) == [t |-> "bigint", neg |-> neg, big |-> Norm(mag)]
Str(codePoints) == [t |-> "string", cp |-> codePoints]

typeof(v) == v.t

IsZero(a) == a.k = "fin" /\ Norm(a.mag) = << >>

MagLE(a, b) == IF a.k = "inf" THEN b.k = "inf" ELSE b.k = "inf" \/ DigLE(a.mag, b.mag)

\* a <= b on JavaScript numbers: false as soon as one side is NaN.
NumLE(a, b) ==
    IF a.k = "nan" \/ b.k = "nan" THEN FALSE
    ELSE IF IsZero(a) /\ IsZero(b) THEN TRUE
    ELSE LET aNeg == a.neg /\ ~IsZero(a)
             bNeg == b.neg /\ ~IsZero(b)
         IN  IF aNeg /\ ~bNeg THEN TRUE
             ELSE IF ~aNeg /\ bNeg THEN FALSE
             ELSE IF aNeg THEN MagLE(b, a) ELSE MagLE(a, b)

\* a <= b on bigints.
BigLE(a, b) ==
    LET aNeg == a.neg /\ a.big # << >>
        bNeg == b.neg /\ b.big # << >>
    IN  IF aNeg /\ ~bNeg THEN TRUE
        ELSE IF ~aNeg /\ bNeg THEN FALSE
        ELSE IF aNeg THEN DigLE(b.big, a.big) ELSE DigLE(a.big, b.big)

\* The w-byte unsigned integer a DataView setter stores for a number:
\* modulo 2^(8w), NaN and the infinities as 0.
ToUint(n, w) ==
    IF n.t # "number" \/ n.k # "fin" THEN [i \in 1..w |-> 0]
    ELSE IF n.neg /\ LowDigits(n.mag, w) # [i \in 1..w |-> 0]
         THEN TwosComplement(LowDigits(n.mag, w), w)
         ELSE LowDigits(n.mag, w)

(***************************************************************************)
(* IEEE 754 binary32 image of an integral number (DataView.setFloat32).    *)
(***************************************************************************)
\* Number of significant bits of a byte.
BitLen(b) == IF b >= 128 THEN 8 ELSE IF b >= 64 THEN 7 ELSE IF b >= 32 THEN 6
             ELSE IF b >= 16 THEN 5 ELSE IF b >= 8 THEN 4 ELSE IF b >= 4 THEN 3
             ELSE IF b >= 2 THEN 2 ELSE IF b >= 1 THEN 1 ELSE 0

Pow2(n) == IF n = 0 THEN 1 ELSE IF n = 1 THEN 2 ELSE IF n = 2 THEN 4 ELSE IF n = 3 THEN 8
           ELSE IF n = 4 THEN 16 ELSE IF n = 5 THEN 32 ELSE IF n = 6 THEN 64
           ELSE IF n = 7 THEN 128 ELSE 256

\* The four bytes, most significant first.  The 24-bit significand is the
\* top 24 bits of the magnitude (exact for every binary32-representable
\* integer, which is what the value sets below contain).
Float32BytesBE(n) ==
    IF n.k = "nan" THEN <<127, 192, 0, 0>>
    ELSE LET s == IF n.neg THEN 128 ELSE 0
         IN  IF n.k = "inf" THEN <<s + 127, 128, 0, 0>>
             ELSE IF Norm(n.mag) = << >> THEN <<s, 0, 0, 0>>
             ELSE LET d   == Norm(n.mag)
                      h   == Len(d) - 1
                      bl  == BitLen(d[h + 1])
                      e   == 8 * h + bl - 1
                      w3  == DigitAt(d, h) * 65536
                             + (IF h >= 1 THEN DigitAt(d, h - 1) ELSE 0) * 256
                             + (IF h >= 2 THEN DigitAt(d, h - 2) ELSE 0)
                      d4  == IF h >= 3 THEN DigitAt(d, h - 3) ELSE 0
                      sig == ((w3 * Pow2(8 - bl)) % 16777216) + (d4 \div Pow2(bl))
                      m   == sig - 8388608
                      ex  == e + 127
                  IN  IF ex >= 255 THEN <<s + 127, 128, 0, 0>>
                      ELSE <<s + (ex \div 2), ((ex % 2) * 128) + (m \div 65536),
                             (m \div 256) % 256, m % 256>>

Reverse(q) == [i \in 1..Len(q) |-> q[Len(q) + 1 - i]]

(***************************************************************************)
(* DataView: a byte array of fixed byteLength.  wr collects the indices    *)
(* written and err records a RangeError (an access outside the view, which *)
(* aborts the caller) since the start of the current call.                 *)
(***************************************************************************)
\* The bytes are kept as a sequence: SubSeq(f, 1, n) is the function f of
\* domain 1..n itself.
NewDataView(len) ==
    [byteLength |-> len, bytes |-> SubSeq([i \in 1..len |-> 0], 1, len), wr |-> {}, err |-> FALSE]

\* Store the bytes q at byteOffset, or raise RangeError when they do not
\* lie inside the view.  After a RangeError nothing more executes.
StoreBytes(dv, byteOffset, q) ==
    IF dv.err THEN dv
    ELSE IF byteOffset < 0 \/ byteOffset + Len(q) > dv.byteLength
         THEN [dv EXCEPT !.err = TRUE]
         ELSE LET last == byteOffset + Len(q)
              IN  [dv EXCEPT !.bytes = SubSeq([i \in 1..dv.byteLength |->
                                                  IF i > byteOffset /\ i <= last
                                                  THEN q[i - byteOffset] ELSE dv.bytes[i]],
                                              1, dv.byteLength),
                             !.wr = dv.wr \cup {byteOffset + j - 1 : j \in 1..Len(q)}]

\* Read n bytes at byteOffset (least index first); << >> on RangeError.
LoadBytes(dv, byteOffset, n) ==
    IF byteOffset < 0 \/ byteOffset + n > dv.byteLength THEN << >>
    ELSE [i \in 1..n |-> dv.bytes[byteOffset + i]]

Ordered(digitsLE, littleEndian) == IF littleEndian THEN digitsLE ELSE Reverse(digitsLE)

setUint8(dv, byteOffset, n) == StoreBytes(dv, byteOffset, ToUint(n, 1))
setUint16(dv, byteOffset, n, littleEndian) ==
    StoreBytes(dv, byteOffset, Ordered(ToUint(n, 2), littleEndian))
setUint32(dv, byteOffset, n, littleEndian) ==
    StoreBytes(dv, byteOffset, Ordered(ToUint(n, 4), littleEndian))
\* value is a magnitude; it is stored modulo 2^64.
setBigUint64(dv, byteOffset, value, littleEndian) ==
    StoreBytes(dv, byteOffset, Ordered(LowDigits(value, 8), littleEndian))
getBigUint64(dv, byteOffset, littleEndian) ==
    Norm(Ordered(LoadBytes(dv, byteOffset, 8), littleEndian))
setFloat32(dv, byteOffset, n, littleEndian) ==
    StoreBytes(dv, byteOffset, Ordered(Reverse(Float32BytesBE(n)), littleEndian))

(***************************************************************************)
(* PropertyFlags (a set of property identifiers) and AppendState.          *)
(***************************************************************************)
setHasProperty(flags, flag, value) == IF value THEN flags \cup {flag} ELSE flags \ {flag}
getHasProperty(flags, flag) == flag \in flags

COMPLETED == "COMPLETED"
PARTIAL == "PARTIAL"
NONE == "NONE"
AppendState == {COMPLETED, PARTIAL, NONE}

LITTLE_ENDIAN == TRUE
BIG_ENDIAN == FALSE

\* 3.4028235e38 = 2^128 - 2^104, the largest finite binary32 value.
MAX_FLOAT32 == Num(FALSE, [i \in 1..16 |-> IF i <= 13 THEN 0 ELSE 255])
Negate(n) == [n EXCEPT !.neg = ~n.neg]
\* -MAX_FLOAT32 <= v && v <= MAX_FLOAT32
InFloat32Range(v) == NumLE(Negate(MAX_FLOAT32), v) /\ NumLE(v, MAX_FLOAT32)

(***************************************************************************)
(* OctreePacketData: the typed appenders.  Each returns                    *)
(*   data          the DataView after the call,                            *)
(*   packetContext the packet context after the call,                      *)
(*   ret           the returned number of bytes,                           *)
(*   threw         whether the call ended in a RangeError.                 *)
(***************************************************************************)
\* Mutant of Rejected: the invalid-value exit also flags the packet PARTIAL.
Rejected_SetsPartial(data, packetContext) ==
    [data |-> data, packetContext |-> [packetContext EXCEPT !.appendState = PARTIAL],
     ret |-> 0, threw |-> FALSE]

\* Mutant of Rejected: an invalid value leaves the packet with nothing
\* appended, appendState NONE.
Rejected_SetsNone(data, packetContext) ==
    [data |-> data, packetContext |-> [packetContext EXCEPT !.appendState = NONE],
     ret |-> 0, threw |-> FALSE]

\* "return 0" without touching anything (the invalid-value exit).
Rejected(data, packetContext) ==
    [data |-> data, packetContext |-> packetContext, ret |-> 0, threw |-> FALSE]

\* Mutant of Appended: propertyCount is not incremented.
Appended_NotCounted(data, packetContext, flag, NUM_BYTES) ==
    IF data.err
    THEN [data |-> data, packetContext |-> packetContext, ret |-> 0, threw |-> TRUE]
    ELSE [data |-> data,
          packetContext |->
              [packetContext EXCEPT
                  !.propertiesToWrite = setHasProperty(packetContext.propertiesToWrite, flag, FALSE),
                  !.propertiesWritten = setHasProperty(packetContext.propertiesWritten, flag, TRUE)],
          ret |-> NUM_BYTES, threw |-> FALSE]

\* Mutant of Appended: a successful append resets appendState to COMPLETED.
Appended_ResetsState(data, packetContext, flag, NUM_BYTES) ==
    IF data.err
    THEN [data |-> data, packetContext |-> packetContext, ret |-> 0, threw |-> TRUE]
    ELSE [data |-> data,
          packetContext |->
              [packetContext EXCEPT
                  !.propertiesToWrite = setHasProperty(packetContext.propertiesToWrite, flag, FALSE),
                  !.propertiesWritten = setHasProperty(packetContext.propertiesWritten, flag, TRUE),
                  !.propertyCount = packetContext.propertyCount + 1,
                  !.appendState = COMPLETED],
          ret |-> NUM_BYTES, threw |-> FALSE]

\* Mutant of Appended: the flag is not cleared from propertiesToWrite.
Appended_KeepsToWrite(data, packetContext, flag, NUM_BYTES) ==
    IF data.err
    THEN [data |-> data, packetContext |-> packetContext, ret |-> 0, threw |-> TRUE]
    ELSE [data |-> data,
          packetContext |->
              [packetContext EXCEPT
                  !.propertiesWritten = setHasProperty(packetContext.propertiesWritten, flag, TRUE),
                  !.propertyCount = packetContext.propertyCount + 1],
          ret |-> NUM_BYTES, threw |-> FALSE]

\* Mutant of Appended: the flag is not set in propertiesWritten.
Appended_NotMarkedWritten(data, packetContext, flag, NUM_BYTES) ==
    IF data.err
    THEN [data |-> data, packetContext |-> packetContext, ret |-> 0, threw |-> TRUE]
    ELSE [data |-> data,
          packetContext |->
              [packetContext EXCEPT
                  !.propertiesToWrite = setHasProperty(packetContext.propertiesToWrite, flag, FALSE),
                  !.propertyCount = packetContext.propertyCount + 1],
          ret |-> NUM_BYTES, threw |-> FALSE]

\* The tail of every success branch: clear the flag from propertiesToWrite,
\* set it in propertiesWritten, count the property, return NUM_BYTES.  When a
\* DataView setter raised RangeError none of this is reached.
Appended(data, packetContext, flag, NUM_BYTES) ==
    IF data.err
    THEN [data |-> data, packetContext |-> packetContext, ret |-> 0, threw |-> TRUE]
    ELSE [data |-> data,
          packetContext |->
              [packetContext EXCEPT
                  !.propertiesToWrite = setHasProperty(packetContext.propertiesToWrite, flag, FALSE),
                  !.propertiesWritten = setHasProperty(packetContext.propertiesWritten, flag, TRUE),
                  !.propertyCount = packetContext.propertyCount + 1],
          ret |-> NUM_BYTES, threw |-> FALSE]

\* Mutant of DidNotFit: returns 0 without setting appendState.
DidNotFit_Silent(data, packetContext) ==
    [data |-> data, packetContext |-> packetContext, ret |-> 0, threw |-> FALSE]

\* The tail of every appender when the value does not fit.
DidNotFit(data, packetContext) ==
    [data |-> data, packetContext |-> [packetContext EXCEPT !.appendState = PARTIAL],
     ret |-> 0, threw |-> FALSE]

\* Mutant of appendAACubeValue: the scale is validated like a corner
\* coordinate, so a negative scale passes.
appendAACubeValue_AnyScale(data, dataPosition, flag, value, packetContext) ==
    LET valid == /\ typeof(value.corner) = "object" /\ typeof(value.corner.x) = "number"
                 /\ typeof(value.corner.y) = "number" /\ typeof(value.corner.z) = "number"
                 /\ typeof(value.scale) = "number"
                 /\ InFloat32Range(value.corner.x)
                 /\ InFloat32Range(value.corner.y)
                 /\ InFloat32Range(value.corner.z)
                 /\ InFloat32Range(value.scale)
        NUM_BYTES == 16
    IN  IF ~valid THEN Rejected(data, packetContext)
        ELSE IF dataPosition + NUM_BYTES <= data.byteLength
        THEN LET d1 == setFloat32(data, dataPosition, value.corner.x, LITTLE_ENDIAN)
                 d2 == setFloat32(d1, dataPosition + 4, value.corner.y, LITTLE_ENDIAN)
                 d3 == setFloat32(d2, dataPosition + 8, value.corner.z, LITTLE_ENDIAN)
                 d4 == setFloat32(d3, dataPosition + 12, value.scale, LITTLE_ENDIAN)
             IN  Appended(d4, packetContext, flag, NUM_BYTES)
        ELSE DidNotFit(data, packetContext)

appendAACubeValue(data, dataPosition, flag, value, packetContext) ==
    LET valid == /\ typeof(value.corner) = "object" /\ typeof(value.corner.x) = "number"
                 /\ typeof(value.corner.y) = "number" /\ typeof(value.corner.z) = "number"
                 /\ typeof(value.scale) = "number"
                 /\ InFloat32Range(value.corner.x)
                 /\ InFloat32Range(value.corner.y)
                 /\ InFloat32Range(value.corner.z)
                 /\ NumLE(N(0), value.scale) /\ NumLE(value.scale, MAX_FLOAT32)
        NUM_BYTES == 16
    IN  IF ~valid THEN Rejected(data, packetContext)
        ELSE IF dataPosition + NUM_BYTES <= data.byteLength
        THEN LET d1 == setFloat32(data, dataPosition, value.corner.x, LITTLE_ENDIAN)
                 d2 == setFloat32(d1, dataPosition + 4, value.corner.y, LITTLE_ENDIAN)
                 d3 == setFloat32(d2, dataPosition + 8, value.corner.z, LITTLE_ENDIAN)
                 d4 == setFloat32(d3, dataPosition + 12, value.scale, LITTLE_ENDIAN)
             IN  Appended(d4, packetContext, flag, NUM_BYTES)
        ELSE DidNotFit(data, packetContext)

\* for (i = 0; i < bytes.length; i += 1) data.setUint8(startIndex + i, bytes[i])
\* from i on: the bytes are stored one by one up to the first that lies
\* outside the view, which raises RangeError.
StoreEach(dv, startIndex, bytes, i) ==
    IF dv.err \/ i >= Len(bytes) THEN dv
    ELSE LET room == dv.byteLength - startIndex
             last == IF startIndex + i < 0 \/ room < i THEN i
                     ELSE IF room < Len(bytes) THEN room ELSE Len(bytes)
         IN  [dv EXCEPT !.bytes = SubSeq([j \in 1..dv.byteLength |->
                                             IF j > startIndex + i /\ j <= startIndex + last
                                             THEN bytes[j - startIndex] ELSE dv.bytes[j]],
                                         1, dv.byteLength),
                        !.wr = dv.wr \cup {startIndex + j : j \in i..(last - 1)},
                        !.err = last < Len(bytes)]

appendArrayBufferValue(data, dataPosition, flag, value, packetContext) ==
    LET valid == value.t = "ArrayBuffer"
    IN  IF ~valid THEN Rejected(data, packetContext)
        ELSE LET byteLength == Len(value.bytes)
                 NUM_BYTES == 2 + byteLength
             IN  IF dataPosition + NUM_BYTES <= data.byteLength
                 THEN LET d1 == setUint16(data, dataPosition, N(byteLength), LITTLE_ENDIAN)
                          startIndex == dataPosition + 2
                          d2 == StoreEach(d1, startIndex, value.bytes, 0)
                      IN  Appended(d2, packetContext, flag, NUM_BYTES)
                 ELSE DidNotFit(data, packetContext)

\* Math.ceil(n / 8)
Ceil8(n) == (n + 7) \div 8

\* The byte that the loop of appendBooleanArray stores for the elements
\* 8k .. 8k + 7 of value: element 8k + bit sets bit `bit` of it.
PackedBooleans(value, k) ==
    LET Bit(bit) == IF 8 * k + bit < Len(value) /\ value[8 * k + bit + 1].b
                    THEN Pow2(bit) ELSE 0
    IN  Bit(0) + Bit(1) + Bit(2) + Bit(3) + Bit(4) + Bit(5) + Bit(6) + Bit(7)

\* The loop of appendBooleanArray: packs eight elements per byte, least
\* significant bit first, and stores a byte (setUint8 at index, index + 1,
\* ...) on every full byte and at the last element.
PackBooleans(dv, value, index) ==
    StoreBytes(dv, index, [k \in 1..Ceil8(Len(value)) |-> PackedBooleans(value, k - 1)])

\* Mutant of appendBooleanArray: the length of the array is not checked.
appendBooleanArray_AnyLength(data, dataPosition, flag, value, packetContext) ==
    LET valid == /\ value.t = "array"
                 /\ \A i \in 1..Len(value.elems) : typeof(value.elems[i]) = "boolean"
    IN  IF ~valid THEN Rejected(data, packetContext)
        ELSE LET NUM_BYTES == 2 + Ceil8(Len(value.elems))
             IN  IF dataPosition + NUM_BYTES <= data.byteLength
                 THEN LET d1 == setUint16(data, dataPosition, N(Len(value.elems)), LITTLE_ENDIAN)
                          d2 == PackBooleans(d1, value.elems, dataPosition + 2)
                      IN  Appended(d2, packetContext, flag, NUM_BYTES)
                 ELSE DidNotFit(data, packetContext)

appendBooleanArray(data, dataPosition, flag, value, packetContext) ==
    LET valid == /\ value.t = "array" /\ Len(value.elems) <= 65535
                 /\ \A i \in 1..Len(value.elems) : typeof(value.elems[i]) = "boolean"
    IN  IF ~valid THEN Rejected(data, packetContext)
        ELSE LET NUM_BYTES == 2 + Ceil8(Len(value.elems))
             IN  IF dataPosition + NUM_BYTES <= data.byteLength
                 THEN LET d1 == setUint16(data, dataPosition, N(Len(value.elems)), LITTLE_ENDIAN)
                          d2 == PackBooleans(d1, value.elems, dataPosition + 2)
                      IN  Appended(d2, packetContext, flag, NUM_BYTES)
                 ELSE DidNotFit(data, packetContext)

appendBooleanValue(data, dataPosition, flag, value, packetContext) ==
    LET valid == typeof(value) = "boolean"
        NUM_BYTES == 1
    IN  IF ~valid THEN Rejected(data, packetContext)
        ELSE IF dataPosition + NUM_BYTES <= data.byteLength
        THEN Appended(setUint8(data, dataPosition, IF value.b THEN N(1) ELSE N(0)),
                      packetContext, flag, NUM_BYTES)
        ELSE DidNotFit(data, packetContext)

\* Mutant of appendColorValue: a colour that does not fit returns 0 without
\* setting appendState.
appendColorValue_NoFitSilent(data, dataPosition, flag, value, packetContext) ==
    LET valid == /\ typeof(value.red) = "number" /\ typeof(value.green) = "number"
                 /\ typeof(value.blue) = "number"
        NUM_BYTES == 3
    IN  IF ~valid THEN Rejected(data, packetContext)
        ELSE IF dataPosition + NUM_BYTES <= data.byteLength
        THEN LET d1 == setUint8(data, dataPosition, value.red)
                 d2 == setUint8(d1, dataPosition + 1, value.green)
                 d3 == setUint8(d2, dataPosition + 2, value.blue)
             IN  Appended(d3, packetContext, flag, NUM_BYTES)
        ELSE Rejected(data, packetContext)

\* Mutant of appendColorValue: nothing is written once the packet is PARTIAL.
appendColorValue_StopsAfterPartial(data, dataPosition, flag, value, packetContext) ==
    LET valid == /\ typeof(value.red) = "number" /\ typeof(value.green) = "number"
                 /\ typeof(value.blue) = "number"
        NUM_BYTES == 3
    IN  IF ~valid THEN Rejected(data, packetContext)
        ELSE IF /\ dataPosition + NUM_BYTES <= data.byteLength
                /\ packetContext.appendState # PARTIAL
        THEN LET d1 == setUint8(data, dataPosition, value.red)
                 d2 == setUint8(d1, dataPosition + 1, value.green)
                 d3 == setUint8(d2, dataPosition + 2, value.blue)
             IN  Appended(d3, packetContext, flag, NUM_BYTES)
        ELSE DidNotFit(data, packetContext)

appendColorValue(data, dataPosition, flag, value, packetContext) ==
    LET valid == /\ typeof(value.red) = "number" /\ typeof(value.green) = "number"
                 /\ typeof(value.blue) = "number"
        NUM_BYTES == 3
    IN  IF ~valid THEN Rejected(data, packetContext)
        ELSE IF dataPosition + NUM_BYTES <= data.byteLength
        THEN LET d1 == setUint8(data, dataPosition, value.red)
                 d2 == setUint8(d1, dataPosition + 1, value.green)
                 d3 == setUint8(d2, dataPosition + 2, value.blue)
             IN  Appended(d3, packetContext, flag, NUM_BYTES)
        ELSE DidNotFit(data, packetContext)

appendFloat32Value(data, dataPosition, flag, value, littleEndian, packetContext) ==
    LET valid == typeof(value) = "number" /\ InFloat32Range(value)
        NUM_BYTES == 4
    IN  IF ~valid THEN Rejected(data, packetContext)
        ELSE IF dataPosition + NUM_BYTES <= data.byteLength
        THEN Appended(setFloat32(data, dataPosition, value, littleEndian),
                      packetContext, flag, NUM_BYTES)
        ELSE DidNotFit(data, packetContext)

(***************************************************************************)
(* DataView 128-bit extensions.  Values are non-negative magnitudes.       *)
(***************************************************************************)
MAX_U128_VALUE == [i \in 1..16 |-> 255]
SHIFT_64_BITS == 64
MASK_64_BITS == [i \in 1..8 |-> 255]

\* x >> bits and x << bits for whole numbers of bytes.
ShiftRight(x, bits) == Norm(ShiftRightDigits(x, bits \div 8))
ShiftLeft(x, bits) == Norm(ShiftLeftDigits(x, bits \div 8))
\* x & mask for a mask made of 0x00 and 0xff bytes.
BitAnd(x, mask) == Norm([i \in 1..Len(mask) |-> IF mask[i] = 255 THEN DigitAt(x, i - 1) ELSE 0])

\* Mutant of setBigUint128: the value is not compared with MAX_U128_VALUE.
setBigUint128_NotSanitized(dv, byteOffset, value, littleEndian) ==
    LET sanitizedValue == value
    IN  IF littleEndian
        THEN setBigUint64(
                 setBigUint64(dv, byteOffset + 8, ShiftRight(sanitizedValue, SHIFT_64_BITS), littleEndian),
                 byteOffset, BitAnd(sanitizedValue, MASK_64_BITS), littleEndian)
        ELSE setBigUint64(
                 setBigUint64(dv, byteOffset, ShiftRight(sanitizedValue, SHIFT_64_BITS), littleEndian),
                 byteOffset + 8, BitAnd(sanitizedValue, MASK_64_BITS), littleEndian)

\* Mutant of setBigUint128: the little-endian write puts the halves where the
\* big-endian write puts them.
setBigUint128_HalvesNotSwapped(dv, byteOffset, value, littleEndian) ==
    LET sanitizedValue == IF DigLess(Norm(MAX_U128_VALUE), Norm(value)) THEN << >> ELSE value
    IN  setBigUint64(
            setBigUint64(dv, byteOffset, ShiftRight(sanitizedValue, SHIFT_64_BITS), littleEndian),
            byteOffset + 8, BitAnd(sanitizedValue, MASK_64_BITS), littleEndian)

setBigUint128(dv, byteOffset, value, littleEndian) ==
    LET sanitizedValue == IF DigLess(Norm(MAX_U128_VALUE), Norm(value)) THEN << >> ELSE value
    IN  IF littleEndian
        THEN setBigUint64(
                 setBigUint64(dv, byteOffset + 8, ShiftRight(sanitizedValue, SHIFT_64_BITS), littleEndian),
                 byteOffset, BitAnd(sanitizedValue, MASK_64_BITS), littleEndian)
        ELSE setBigUint64(
                 setBigUint64(dv, byteOffset, ShiftRight(sanitizedValue, SHIFT_64_BITS), littleEndian),
                 byteOffset + 8, BitAnd(sanitizedValue, MASK_64_BITS), littleEndian)

\* Mutant of getBigUint128: the big-endian read takes the halves in
\* little-endian order.
getBigUint128_SwappedHalves(dv, byteOffset, littleEndian) ==
    DigAdd(ShiftLeft(getBigUint64(dv, byteOffset + 8, littleEndian), SHIFT_64_BITS),
           getBigUint64(dv, byteOffset, littleEndian))

getBigUint128(dv, byteOffset, littleEndian) ==
    IF littleEndian
    THEN DigAdd(ShiftLeft(getBigUint64(dv, byteOffset + 8, littleEndian), SHIFT_64_BITS),
                getBigUint64(dv, byteOffset, littleEndian))
    ELSE DigAdd(ShiftLeft(getBigUint64(dv, byteOffset, littleEndian), SHIFT_64_BITS),
                getBigUint64(dv, byteOffset + 8, littleEndian))

(***************************************************************************)
(* Helpers of the remaining appenders.                                     *)
(***************************************************************************)
\* A Uuid object wraps a 128-bit value; the null Uuid is 0.
Uuid(mag) == [t |-> "Uuid", u |-> Norm(mag)]
isNull(uuid) == uuid.u = << >>

\* One component of a packed orientation: floor((c + 1) * 32767.5) for the
\* components -1, 0 and 1 of an axis-aligned unit quaternion.
QuatPart(c) == IF c.k # "fin" THEN N(0)
               ELSE IF IsZero(c) THEN N(32767)
               ELSE IF c.neg THEN N(0) ELSE N(65535)

\* GLMHelpers.packOrientationQuatToBytes: 8 bytes, four 16-bit parts.
packOrientationQuatToBytes(dv, index, q) ==
    LET d1 == setUint16(dv, index, QuatPart(q.x), LITTLE_ENDIAN)
        d2 == setUint16(d1, index + 2, QuatPart(q.y), LITTLE_ENDIAN)
        d3 == setUint16(d2, index + 4, QuatPart(q.z), LITTLE_ENDIAN)
    IN  setUint16(d3, index + 6, QuatPart(q.w), LITTLE_ENDIAN)

\* TextEncoder.encode of one code point.
Utf8OfCodePoint(c) ==
    IF c < 128 THEN <<c>>
    ELSE IF c < 2048 THEN <<192 + (c \div 64), 128 + (c % 64)>>
    ELSE IF c < 65536 THEN <<224 + (c \div 4096), 128 + ((c \div 64) % 64), 128 + (c % 64)>>
    ELSE <<240 + (c \div 262144), 128 + ((c \div 4096) % 64), 128 + ((c \div 64) % 64),
           128 + (c % 64)>>

RECURSIVE Utf8Encode(_)
\* TextEncoder.encode: the code points' bytes one after the other.
Utf8Encode(cp) ==
    IF cp = << >> THEN << >>
    ELSE IF Len(cp) = 1 THEN Utf8OfCodePoint(cp[1])
    ELSE LET half == Len(cp) \div 2
         IN  Utf8Encode(SubSeq(cp, 1, half)) \o Utf8Encode(SubSeq(cp, half + 1, Len(cp)))

RECURSIVE PackQuats(_, _, _, _)
\* for (const element of value) { pack(data, index, element); index += 8; }
PackQuats(dv, elems, i, index) ==
    IF i > Len(elems) THEN dv
    ELSE PackQuats(packOrientationQuatToBytes(dv, index, elems[i]), elems, i + 1, index + 8)

RECURSIVE StoreUuids(_, _, _, _)
\* value.forEach((uuid) => { data.setBigUint128(index, uuid.value(), BE); index += 16; })
StoreUuids(dv, elems, i, index) ==
    IF i > Len(elems) THEN dv
    ELSE StoreUuids(setBigUint128(dv, index, elems[i].u, BIG_ENDIAN), elems, i + 1, index + 16)

RECURSIVE StoreVec3s(_, _, _, _)
\* value.forEach((element) => { three setFloat32; index += 12; })
StoreVec3s(dv, elems, i, index) ==
    IF i > Len(elems) THEN dv
    ELSE LET d1 == setFloat32(dv, index, elems[i].x, LITTLE_ENDIAN)
             d2 == setFloat32(d1, index + 4, elems[i].y, LITTLE_ENDIAN)
             d3 == setFloat32(d2, index + 8, elems[i].z, LITTLE_ENDIAN)
         IN  StoreVec3s(d3, elems, i + 1, index + 12)

\* Mutant of appendQuatArray: the size is counted as if the quaternions were
\* written as four floats each.
appendQuatArray_CountsUnpacked(data, dataPosition, flag, value, packetContext) ==
    LET valid == /\ value.t = "array" /\ Len(value.elems) <= 65535
                 /\ \A i \in 1..Len(value.elems) :
                        /\ typeof(value.elems[i]) = "object"
                        /\ typeof(value.elems[i].x) = "number"
                        /\ typeof(value.elems[i].y) = "number"
                        /\ typeof(value.elems[i].z) = "number"
                        /\ typeof(value.elems[i].w) = "number"
    IN  IF ~valid THEN Rejected(data, packetContext)
        ELSE LET NUM_BYTES == 2 + Len(value.elems) * 16
             IN  IF dataPosition + NUM_BYTES <= data.byteLength
                 THEN LET d1 == setUint16(data, dataPosition, N(Len(value.elems)), LITTLE_ENDIAN)
                          d2 == PackQuats(d1, value.elems, 1, dataPosition + 2)
                      IN  Appended(d2, packetContext, flag, NUM_BYTES)
                 ELSE DidNotFit(data, packetContext)

appendQuatArray(data, dataPosition, flag, value, packetContext) ==
    LET valid == /\ value.t = "array" /\ Len(value.elems) <= 65535
                 /\ \A i \in 1..Len(value.elems) :
                        /\ typeof(value.elems[i]) = "object"
                        /\ typeof(value.elems[i].x) = "number"
                        /\ typeof(value.elems[i].y) = "number"
                        /\ typeof(value.elems[i].z) = "number"
                        /\ typeof(value.elems[i].w) = "number"
    IN  IF ~valid THEN Rejected(data, packetContext)
        ELSE LET NUM_BYTES == 2 + Len(value.elems) * 8
             IN  IF dataPosition + NUM_BYTES <= data.byteLength
                 THEN LET d1 == setUint16(data, dataPosition, N(Len(value.elems)), LITTLE_ENDIAN)
                          d2 == PackQuats(d1, value.elems, 1, dataPosition + 2)
                      IN  Appended(d2, packetContext, flag, NUM_BYTES)
                 ELSE DidNotFit(data, packetContext)

appendQuatValue(data, dataPosition, flag, value, packetContext) ==
    LET valid == /\ typeof(value.x) = "number" /\ typeof(value.y) = "number"
                 /\ typeof(value.z) = "number" /\ typeof(value.w) = "number"
        NUM_BYTES == 8
    IN  IF ~valid THEN Rejected(data, packetContext)
        ELSE IF dataPosition + NUM_BYTES <= data.byteLength
        THEN Appended(packOrientationQuatToBytes(data, dataPosition, value),
                      packetContext, flag, NUM_BYTES)
        ELSE DidNotFit(data, packetContext)

appendRectValue(data, dataPosition, flag, value, packetContext) ==
    LET valid == /\ typeof(value.x) = "number" /\ typeof(value.y) = "number"
                 /\ typeof(value.width) = "number" /\ typeof(value.height) = "number"
        NUM_BYTES == 16
    IN  IF ~valid THEN Rejected(data, packetContext)
        ELSE IF dataPosition + NUM_BYTES <= data.byteLength
        THEN LET d1 == setUint32(data, dataPosition, value.x, LITTLE_ENDIAN)
                 d2 == setUint32(d1, dataPosition + 4, value.y, LITTLE_ENDIAN)
                 d3 == setUint32(d2, dataPosition + 8, value.width, LITTLE_ENDIAN)
                 d4 == setUint32(d3, dataPosition + 12, value.height, LITTLE_ENDIAN)
             IN  Appended(d4, packetContext, flag, NUM_BYTES)
        ELSE DidNotFit(data, packetContext)

\* Mutant of appendStringValue: the length written is the number of code
\* points of the string.
appendStringValue_CountsCodePoints(data, dataPosition, flag, value, packetContext) ==
    LET valid == typeof(value) = "string"
    IN  IF ~valid THEN Rejected(data, packetContext)
        ELSE LET utf8 == Utf8Encode(value.cp)
                 NUM_BYTES == 2 + Len(utf8)
             IN  IF dataPosition + NUM_BYTES <= data.byteLength
                 THEN LET d1 == setUint16(data, dataPosition, N(Len(value.cp)), LITTLE_ENDIAN)
                          startIndex == dataPosition + 2
                          d2 == StoreEach(d1, startIndex, utf8, 0)
                      IN  Appended(d2, packetContext, flag, NUM_BYTES)
                 ELSE DidNotFit(data, packetContext)

appendStringValue(data, dataPosition, flag, value, packetContext) ==
    LET valid == typeof(value) = "string"
    IN  IF ~valid THEN Rejected(data, packetContext)
        ELSE LET utf8 == Utf8Encode(value.cp)
                 NUM_BYTES == 2 + Len(utf8)
             IN  IF dataPosition + NUM_BYTES <= data.byteLength
                 THEN LET d1 == setUint16(data, dataPosition, N(Len(utf8)), LITTLE_ENDIAN)
                          startIndex == dataPosition + 2
                          d2 == StoreEach(d1, startIndex, utf8, 0)
                      IN  Appended(d2, packetContext, flag, NUM_BYTES)
                 ELSE DidNotFit(data, packetContext)

appendUint8Value(data, dataPosition, flag, value, packetContext) ==
    LET valid == typeof(value) = "number" /\ NumLE(N(0), value) /\ NumLE(value, N(255))
        NUM_BYTES == 1
    IN  IF ~valid THEN Rejected(data, packetContext)
        ELSE IF dataPosition + NUM_BYTES <= data.byteLength
        THEN Appended(setUint8(data, dataPosition, value), packetContext, flag, NUM_BYTES)
        ELSE DidNotFit(data, packetContext)

appendUint16Value(data, dataPosition, flag, value, littleEndian, packetContext) ==
    LET valid == typeof(value) = "number" /\ NumLE(N(0), value) /\ NumLE(value, N(65535))
        NUM_BYTES == 2
    IN  IF ~valid THEN Rejected(data, packetContext)
        ELSE IF dataPosition + NUM_BYTES <= data.byteLength
        THEN Appended(setUint16(data, dataPosition, value, littleEndian),
                      packetContext, flag, NUM_BYTES)
        ELSE DidNotFit(data, packetContext)

\* Mutant of appendUint32Value: the value is not compared with 0xffffffff.
appendUint32Value_NoUpperBound(data, dataPosition, flag, value, littleEndian, packetContext) ==
    LET valid == typeof(value) = "number" /\ NumLE(N(0), value)
        NUM_BYTES == 4
    IN  IF ~valid THEN Rejected(data, packetContext)
        ELSE IF dataPosition + NUM_BYTES <= data.byteLength
        THEN Appended(setUint32(data, dataPosition, value, littleEndian),
                      packetContext, flag, NUM_BYTES)
        ELSE DidNotFit(data, packetContext)

appendUint32Value(data, dataPosition, flag, value, littleEndian, packetContext) ==
    LET valid == /\ typeof(value) = "number" /\ NumLE(N(0), value)
                 /\ NumLE(value, Num(FALSE, <<255, 255, 255, 255>>))
        NUM_BYTES == 4
    IN  IF ~valid THEN Rejected(data, packetContext)
        ELSE IF dataPosition + NUM_BYTES <= data.byteLength
        THEN Appended(setUint32(data, dataPosition, value, littleEndian),
                      packetContext, flag, NUM_BYTES)
        ELSE DidNotFit(data, packetContext)

appendUint64Value(data, dataPosition, flag, value, littleEndian, packetContext) ==
    LET valid == /\ typeof(value) = "bigint" /\ BigLE(BigInt(FALSE, << >>), value)
                 /\ BigLE(value, BigInt(FALSE, [i \in 1..8 |-> 255]))
        NUM_BYTES == 8
    IN  IF ~valid THEN Rejected(data, packetContext)
        ELSE IF dataPosition + NUM_BYTES <= data.byteLength
        THEN Appended(setBigUint64(data, dataPosition, value.big, littleEndian),
                      packetContext, flag, NUM_BYTES)
        ELSE DidNotFit(data, packetContext)

appendUuidArray(data, dataPosition, flag, value, packetContext) ==
    LET valid == /\ value.t = "array" /\ Len(value.elems) <= 65535
                 /\ \A i \in 1..Len(value.elems) : value.elems[i].t = "Uuid"
    IN  IF ~valid THEN Rejected(data, packetContext)
        ELSE LET NUM_BYTES == 2 + Len(value.elems) * 16
             IN  IF dataPosition + NUM_BYTES <= data.byteLength
                 THEN LET d1 == setUint16(data, dataPosition, N(Len(value.elems)), LITTLE_ENDIAN)
                          d2 == StoreUuids(d1, value.elems, 1, dataPosition + 2)
                      IN  Appended(d2, packetContext, flag, NUM_BYTES)
                 ELSE DidNotFit(data, packetContext)

\* Mutant of appendUuidValue: the fit test of a non-null UUID counts only
\* the two length bytes.
appendUuidValue_LengthOnlyCheck(data, dataPosition, flag, value, packetContext) ==
    LET valid == value.t = "Uuid"
    IN  IF ~valid THEN Rejected(data, packetContext)
        ELSE IF isNull(value)
        THEN LET NUM_BYTES == 2
             IN  IF dataPosition + NUM_BYTES <= data.byteLength
                 THEN Appended(setUint16(data, dataPosition, N(0), LITTLE_ENDIAN),
                               packetContext, flag, NUM_BYTES)
                 ELSE DidNotFit(data, packetContext)
        ELSE LET NUM_LENGTH_BYTES == 2
                 NUM_VALUE_BYTES == 16
             IN  IF dataPosition + NUM_LENGTH_BYTES <= data.byteLength
                 THEN LET d1 == setUint16(data, dataPosition, N(NUM_VALUE_BYTES), LITTLE_ENDIAN)
                          d2 == setBigUint128(d1, dataPosition + NUM_LENGTH_BYTES, value.u, BIG_ENDIAN)
                      IN  Appended(d2, packetContext, flag, NUM_LENGTH_BYTES + NUM_VALUE_BYTES)
                 ELSE DidNotFit(data, packetContext)

\* Mutant of appendUuidValue: a Uuid that does not fit is also dropped from
\* propertiesToWrite.
appendUuidValue_NoFitClearsFlag(data, dataPosition, flag, value, packetContext) ==
    LET valid == value.t = "Uuid"
        Dropped == [packetContext EXCEPT
                       !.propertiesToWrite = setHasProperty(packetContext.propertiesToWrite, flag, FALSE)]
    IN  IF ~valid THEN Rejected(data, packetContext)
        ELSE IF isNull(value)
        THEN LET NUM_BYTES == 2
             IN  IF dataPosition + NUM_BYTES <= data.byteLength
                 THEN Appended(setUint16(data, dataPosition, N(0), LITTLE_ENDIAN),
                               packetContext, flag, NUM_BYTES)
                 ELSE DidNotFit(data, Dropped)
        ELSE LET NUM_LENGTH_BYTES == 2
                 NUM_VALUE_BYTES == 16
             IN  IF dataPosition + NUM_LENGTH_BYTES + NUM_VALUE_BYTES <= data.byteLength
                 THEN LET d1 == setUint16(data, dataPosition, N(NUM_VALUE_BYTES), LITTLE_ENDIAN)
                          d2 == setBigUint128(d1, dataPosition + NUM_LENGTH_BYTES, value.u, BIG_ENDIAN)
                      IN  Appended(d2, packetContext, flag, NUM_LENGTH_BYTES + NUM_VALUE_BYTES)
                 ELSE DidNotFit(data, Dropped)

\* Mutant of appendUuidValue: the value is written least significant byte
\* first.
appendUuidValue_ValueLittleEndian(data, dataPosition, flag, value, packetContext) ==
    LET valid == value.t = "Uuid"
    IN  IF ~valid THEN Rejected(data, packetContext)
        ELSE IF isNull(value)
        THEN LET NUM_BYTES == 2
             IN  IF dataPosition + NUM_BYTES <= data.byteLength
                 THEN Appended(setUint16(data, dataPosition, N(0), LITTLE_ENDIAN),
                               packetContext, flag, NUM_BYTES)
                 ELSE DidNotFit(data, packetContext)
        ELSE LET NUM_LENGTH_BYTES == 2
                 NUM_VALUE_BYTES == 16
             IN  IF dataPosition + NUM_LENGTH_BYTES + NUM_VALUE_BYTES <= data.byteLength
                 THEN LET d1 == setUint16(data, dataPosition, N(NUM_VALUE_BYTES), LITTLE_ENDIAN)
                          d2 == setBigUint128(d1, dataPosition + NUM_LENGTH_BYTES, value.u,
                                              LITTLE_ENDIAN)
                      IN  Appended(d2, packetContext, flag, NUM_LENGTH_BYTES + NUM_VALUE_BYTES)
                 ELSE DidNotFit(data, packetContext)

appendUuidValue(data, dataPosition, flag, value, packetContext) ==
    LET valid == value.t = "Uuid"
    IN  IF ~valid THEN Rejected(data, packetContext)
        ELSE IF isNull(value)
        THEN LET NUM_BYTES == 2
             IN  IF dataPosition + NUM_BYTES <= data.byteLength
                 THEN Appended(setUint16(data, dataPosition, N(0), LITTLE_ENDIAN),
                               packetContext, flag, NUM_BYTES)
                 ELSE DidNotFit(data, packetContext)
        ELSE LET NUM_LENGTH_BYTES == 2
                 NUM_VALUE_BYTES == 16
             IN  IF dataPosition + NUM_LENGTH_BYTES + NUM_VALUE_BYTES <= data.byteLength
                 THEN LET d1 == setUint16(data, dataPosition, N(NUM_VALUE_BYTES), LITTLE_ENDIAN)
                          d2 == setBigUint128(d1, dataPosition + NUM_LENGTH_BYTES, value.u, BIG_ENDIAN)
                      IN  Appended(d2, packetContext, flag, NUM_LENGTH_BYTES + NUM_VALUE_BYTES)
                 ELSE DidNotFit(data, packetContext)

appendVec2Value(data, dataPosition, flag, value, packetContext) ==
    LET valid == /\ typeof(value.x) = "number" /\ typeof(value.y) = "number"
                 /\ InFloat32Range(value.x) /\ InFloat32Range(value.y)
        NUM_BYTES == 8
    IN  IF ~valid THEN Rejected(data, packetContext)
        ELSE IF dataPosition + NUM_BYTES <= data.byteLength
        THEN LET d1 == setFloat32(data, dataPosition, value.x, LITTLE_ENDIAN)
                 d2 == setFloat32(d1, dataPosition + 4, value.y, LITTLE_ENDIAN)
             IN  Appended(d2, packetContext, flag, NUM_BYTES)
        ELSE DidNotFit(data, packetContext)

appendVec3Array(data, dataPosition, flag, value, packetContext) ==
    LET valid == /\ value.t = "array" /\ Len(value.elems) <= 65535
                 /\ \A i \in 1..Len(value.elems) :
                        /\ typeof(value.elems[i].x) = "number"
                        /\ typeof(value.elems[i].y) = "number"
                        /\ typeof(value.elems[i].z) = "number"
                        /\ InFloat32Range(value.elems[i].x)
                        /\ InFloat32Range(value.elems[i].y)
                        /\ InFloat32Range(value.elems[i].z)
    IN  IF ~valid THEN Rejected(data, packetContext)
        ELSE LET NUM_BYTES == 2 + Len(value.elems) * 12
             IN  IF dataPosition + NUM_BYTES <= data.byteLength
                 THEN LET d1 == setUint16(data, dataPosition, N(Len(value.elems)), LITTLE_ENDIAN)
                          d2 == StoreVec3s(d1, value.elems, 1, dataPosition + 2)
                      IN  Appended(d2, packetContext, flag, NUM_BYTES)
                 ELSE DidNotFit(data, packetContext)

appendVec3Value(data, dataPosition, flag, value, packetContext) ==
    LET valid == /\ typeof(value.x) = "number" /\ typeof(value.y) = "number"
                 /\ typeof(value.z) = "number"
                 /\ InFloat32Range(value.x) /\ InFloat32Range(value.y)
                 /\ InFloat32Range(value.z)
        NUM_BYTES == 12
    IN  IF ~valid THEN Rejected(data, packetContext)
        ELSE IF dataPosition + NUM_BYTES <= data.byteLength
        THEN LET d1 == setFloat32(data, dataPosition, value.x, LITTLE_ENDIAN)
                 d2 == setFloat32(d1, dataPosition + 4, value.y, LITTLE_ENDIAN)
                 d3 == setFloat32(d2, dataPosition + 8, value.z, LITTLE_ENDIAN)
             IN  Appended(d3, packetContext, flag, NUM_BYTES)
        ELSE DidNotFit(data, packetContext)

(***************************************************************************)
(* Input values of the appenders.                                          *)
(***************************************************************************)
Neg(n) == Num(TRUE, Nat2Dig(n))
\* 2^128: a finite number above MAX_FLOAT32.
TooBigForFloat32 == Num(FALSE, [i \in 1..17 |-> IF i = 17 THEN 1 ELSE 0])
Obj3(x, y, z) == [t |-> "object", x |-> x, y |-> y, z |-> z]
Obj2(x, y) == [t |-> "object", x |-> x, y |-> y]
Quat(x, y, z, w) == [t |-> "object", x |-> x, y |-> y, z |-> z, w |-> w]
Color(r, g, b) == [t |-> "object", red |-> r, green |-> g, blue |-> b]
Rect(x, y, w, h) == [t |-> "object", x |-> x, y |-> y, width |-> w, height |-> h]
AACube(corner, scale) == [t |-> "object", corner |-> corner, scale |-> scale]
Array(elems) == [t |-> "array", elems |-> elems]
ArrayBuffer(bytes) == [t |-> "ArrayBuffer", bytes |-> bytes]

\* a82f40b6-ee89-46cc-b504-02b88d72a546, least significant byte first.
LastEditedByUuid ==
    Uuid(<<70, 165, 114, 141, 184, 2, 4, 181, 204, 70, 137, 238, 182, 64, 47, 168>>)
NullUuid == Uuid(<< >>)
\* 00000000-0000-0000-0000-000000000102.
SmallUuid == Uuid(<<2, 1>>)

AACubeValues == { AACube(Obj3(N(0), N(1), Neg(2)), N(3)),
                  AACube(Obj3(N(0), N(1), Neg(2)), Neg(1)),
                  AACube(Obj3(NaN, N(1), N(2)), N(3)) }
ArrayBufferValues == { ArrayBuffer(<<1, 2, 3>>), ArrayBuffer(<< >>), Undefined }
BooleanArrayValues ==
    { Array(<<Bool(TRUE), Bool(FALSE), Bool(TRUE)>>),
      Array(<<Bool(TRUE), Bool(FALSE), Bool(TRUE), Bool(FALSE), Bool(TRUE),
              Bool(FALSE), Bool(TRUE), Bool(FALSE), Bool(TRUE)>>),
      Array(<<Bool(TRUE), N(1)>>) }
BooleanValues == { Bool(TRUE), Bool(FALSE), Undefined }
ColorValues == { Color(N(240), N(37), N(148)), Color(N(300), Neg(1), N(0)),
                 Color(N(1), N(2), Undefined) }
Float32Values == { N(15), MAX_FLOAT32, NaN, TooBigForFloat32 }
QuatArrayValues == { Array(<<Quat(N(0), N(0), N(0), N(1))>>), Array(<< >>),
                     Array(<<Quat(N(0), N(0), N(0), N(1)), Quat(N(1), N(0), N(0), N(0))>>),
                     Array(<<Quat(N(0), N(0), N(0), Undefined)>>) }
QuatValues == { Quat(N(0), N(0), N(0), N(1)), Quat(N(1), N(0), N(0), Undefined) }
RectValues == { Rect(N(1), N(2), N(3), N(4)), Rect(N(1), N(2), N(3), Undefined) }
\* "Ab", "e-acute euro" (2 + 3 bytes of UTF-8), and a non-string.
StringValues == { Str(<<65, 98>>), Str(<<233, 8364>>), Undefined }
Uint8Values == { N(7), N(256), Neg(1) }
Uint16Values == { N(258), N(65536) }
Uint32Values == { Num(FALSE, <<4, 3, 2, 1>>), Num(FALSE, <<0, 0, 0, 0, 1>>) }
Uint64Values == { BigInt(FALSE, <<8, 7, 6, 5, 4, 3, 2, 1>>),
                  BigInt(FALSE, <<0, 0, 0, 0, 0, 0, 0, 0, 1>>), N(5) }
UuidArrayValues == { Array(<<LastEditedByUuid>>), Array(<< >>), Array(<<Undefined>>) }
UuidValues == { LastEditedByUuid, SmallUuid, NullUuid, Undefined }
Vec2Values == { Obj2(N(1), Neg(2)), Obj2(NaN, N(0)) }
Vec3ArrayValues == { Array(<<Obj3(N(1), N(2), N(3))>>), Array(<< >>),
                     Array(<<Obj3(Infinity(TRUE), N(0), N(0))>>) }
Vec3Values == { Obj3(N(1), N(2), N(3)), Obj3(N(1), TooBigForFloat32, N(3)) }

\* EntityPropertyList members used as property flags (their positions in the
\* property-flag block of the expected edit messages).
PROP_LAST_EDITED_BY == 17
PROP_COLOR == 84
Flags == {PROP_LAST_EDITED_BY, PROP_COLOR}

\* The packet contexts an encoder can hold between two appender calls.
Contexts ==
    { [propertiesToWrite |-> w, propertiesWritten |-> d, propertyCount |-> Cardinality(d),
       appendState |-> a] :
          w \in SUBSET Flags, d \in SUBSET Flags, a \in {COMPLETED, PARTIAL} }

(***************************************************************************)
(* ShapeEntityItem.readEntitySubclassDataFromBuffer.  The view spans its   *)
(* whole ArrayBuffer (byteOffset 0).                                       *)
(***************************************************************************)
\* EntityPropertyList members the reader tests; only their being distinct
\* from each other and from the pulse properties matters here.
PROP_ALPHA == 85
PROP_SHAPE == 92

\* The byteOffset .. byteOffset + n - 1 lie inside the view: the getters and
\* the Uint8Array constructor raise RangeError otherwise.
InView(dv, byteOffset, n) == byteOffset >= 0 /\ byteOffset + n <= dv.byteLength

getUint8(dv, byteOffset) == dv.bytes[byteOffset + 1]
getUint16(dv, byteOffset, littleEndian) ==
    IF littleEndian THEN dv.bytes[byteOffset + 1] + 256 * dv.bytes[byteOffset + 2]
    ELSE 256 * dv.bytes[byteOffset + 1] + dv.bytes[byteOffset + 2]
\* The number is kept as the four bytes that denote it, most significant
\* first.
getFloat32(dv, byteOffset, littleEndian) ==
    [t |-> "number", k |-> "float32",
     bits |-> Ordered(Reverse(LoadBytes(dv, byteOffset, 4)), littleEndian)]

\* bytes[i] is a continuation byte in lo..hi.
Continues(bytes, i, lo, hi) == i <= Len(bytes) /\ bytes[i] >= lo /\ bytes[i] <= hi

RECURSIVE Utf8Decode(_, _)
\* The UTF-8 decoder of TextDecoder from byte i on: U+FFFD for every
\* malformed sequence, decoding resumed at the byte that broke it.
Utf8Decode(bytes, i) ==
    IF i > Len(bytes) THEN << >>
    ELSE LET b == bytes[i]
             lo == IF b = 224 THEN 160 ELSE IF b = 240 THEN 144 ELSE 128
             hi == IF b = 237 THEN 159 ELSE IF b = 244 THEN 143 ELSE 191
         IN  IF b < 128 THEN <<b>> \o Utf8Decode(bytes, i + 1)
             ELSE IF b >= 194 /\ b <= 223
             THEN IF Continues(bytes, i + 1, lo, hi)
                  THEN <<(b - 192) * 64 + (bytes[i + 1] - 128)>> \o Utf8Decode(bytes, i + 2)
                  ELSE <<65533>> \o Utf8Decode(bytes, i + 1)
             ELSE IF b >= 224 /\ b <= 239
             THEN IF ~Continues(bytes, i + 1, lo, hi)
                  THEN <<65533>> \o Utf8Decode(bytes, i + 1)
                  ELSE IF ~Continues(bytes, i + 2, 128, 191)
                  THEN <<65533>> \o Utf8Decode(bytes, i + 2)
                  ELSE <<(b - 224) * 4096 + (bytes[i + 1] - 128) * 64 + (bytes[i + 2] - 128)>>
                           \o Utf8Decode(bytes, i + 3)
             ELSE IF b >= 240 /\ b <= 244
             THEN IF ~Continues(bytes, i + 1, lo, hi)
                  THEN <<65533>> \o Utf8Decode(bytes, i + 1)
                  ELSE IF ~Continues(bytes, i + 2, 128, 191)
                  THEN <<65533>> \o Utf8Decode(bytes, i + 2)
                  ELSE IF ~Continues(bytes, i + 3, 128, 191)
                  THEN <<65533>> \o Utf8Decode(bytes, i + 3)
                  ELSE <<(b - 240) * 262144 + (bytes[i + 1] - 128) * 4096
                             + (bytes[i + 2] - 128) * 64 + (bytes[i + 3] - 128)>>
                           \o Utf8Decode(bytes, i + 4)
             ELSE <<65533>> \o Utf8Decode(bytes, i + 1)

\* new TextDecoder().decode(bytes): UTF-8, a leading byte order mark dropped.
TextDecode(bytes) ==
    LET codePoints == Utf8Decode(bytes, 1)
    IN  IF codePoints # << >> /\ Head(codePoints) = 65279 THEN Tail(codePoints)
        ELSE codePoints

\* PulsePropertyGroup.readEntitySubclassDataFromBuffer(...).bytesRead when
\* none of the pulse properties is flagged, the case of every propertyFlags
\* read here.
PulseBytesRead(propertyFlags) == 0

\* Mutant of readEntitySubclassDataFromBuffer: the four bytes of alpha are
\* passed over whether or not PROP_ALPHA is flagged.
readEntitySubclassDataFromBuffer_AlphaAlways(data, position, propertyFlags) ==
    LET hasColor == getHasProperty(propertyFlags, PROP_COLOR)
        colorPosition == position
        alphaPosition == colorPosition + (IF hasColor THEN 3 ELSE 0)
        hasAlpha == getHasProperty(propertyFlags, PROP_ALPHA)
        pulsePosition == alphaPosition + 4
        shapePosition == pulsePosition + PulseBytesRead(propertyFlags)
        hasShape == getHasProperty(propertyFlags, PROP_SHAPE)
        lengthInRange == InView(data, shapePosition, 2)
        length == IF hasShape /\ lengthInRange
                  THEN getUint16(data, shapePosition, LITTLE_ENDIAN) ELSE 0
        textPosition == shapePosition + (IF hasShape THEN 2 ELSE 0)
        threw == \/ hasColor /\ ~InView(data, colorPosition, 3)
                 \/ hasAlpha /\ ~InView(data, alphaPosition, 4)
                 \/ hasShape /\ ~lengthInRange
                 \/ length > 0 /\ ~InView(data, textPosition, length)
    IN  IF threw THEN [threw |-> TRUE]
        ELSE [threw |-> FALSE,
              bytesRead |-> textPosition + length - position,
              properties |->
                  [color |-> IF hasColor
                             THEN Color(N(getUint8(data, colorPosition)),
                                        N(getUint8(data, colorPosition + 1)),
                                        N(getUint8(data, colorPosition + 2)))
                             ELSE Undefined,
                   alpha |-> IF hasAlpha THEN getFloat32(data, alphaPosition, LITTLE_ENDIAN)
                             ELSE Undefined,
                   shape |-> IF length > 0
                             THEN Str(TextDecode(LoadBytes(data, textPosition, length)))
                             ELSE Undefined]]

\* Mutant of readEntitySubclassDataFromBuffer: the length of the shape string
\* is read most significant byte first.
readEntitySubclassDataFromBuffer_BigEndianLength(data, position, propertyFlags) ==
    LET hasColor == getHasProperty(propertyFlags, PROP_COLOR)
        colorPosition == position
        alphaPosition == colorPosition + (IF hasColor THEN 3 ELSE 0)
        hasAlpha == getHasProperty(propertyFlags, PROP_ALPHA)
        pulsePosition == alphaPosition + (IF hasAlpha THEN 4 ELSE 0)
        shapePosition == pulsePosition + PulseBytesRead(propertyFlags)
        hasShape == getHasProperty(propertyFlags, PROP_SHAPE)
        lengthInRange == InView(data, shapePosition, 2)
        length == IF hasShape /\ lengthInRange
                  THEN getUint16(data, shapePosition, BIG_ENDIAN) ELSE 0
        textPosition == shapePosition + (IF hasShape THEN 2 ELSE 0)
        threw == \/ hasColor /\ ~InView(data, colorPosition, 3)
                 \/ hasAlpha /\ ~InView(data, alphaPosition, 4)
                 \/ hasShape /\ ~lengthInRange
                 \/ length > 0 /\ ~InView(data, textPosition, length)
    IN  IF threw THEN [threw |-> TRUE]
        ELSE [threw |-> FALSE,
              bytesRead |-> textPosition + length - position,
              properties |->
                  [color |-> IF hasColor
                             THEN Color(N(getUint8(data, colorPosition)),
                                        N(getUint8(data, colorPosition + 1)),
                                        N(getUint8(data, colorPosition + 2)))
                             ELSE Undefined,
                   alpha |-> IF hasAlpha THEN getFloat32(data, alphaPosition, LITTLE_ENDIAN)
                             ELSE Undefined,
                   shape |-> IF length > 0
                             THEN Str(TextDecode(LoadBytes(data, textPosition, length)))
                             ELSE Undefined]]

\* The result is [threw |-> TRUE] when a read raises RangeError.
readEntitySubclassDataFromBuffer(data, position, propertyFlags) ==
    LET hasColor == getHasProperty(propertyFlags, PROP_COLOR)
        colorPosition == position
        alphaPosition == colorPosition + (IF hasColor THEN 3 ELSE 0)
        hasAlpha == getHasProperty(propertyFlags, PROP_ALPHA)
        pulsePosition == alphaPosition + (IF hasAlpha THEN 4 ELSE 0)
        shapePosition == pulsePosition + PulseBytesRead(propertyFlags)
        hasShape == getHasProperty(propertyFlags, PROP_SHAPE)
        lengthInRange == InView(data, shapePosition, 2)
        length == IF hasShape /\ lengthInRange
                  THEN getUint16(data, shapePosition, LITTLE_ENDIAN) ELSE 0
        textPosition == shapePosition + (IF hasShape THEN 2 ELSE 0)
        threw == \/ hasColor /\ ~InView(data, colorPosition, 3)
                 \/ hasAlpha /\ ~InView(data, alphaPosition, 4)
                 \/ hasShape /\ ~lengthInRange
                 \/ length > 0 /\ ~InView(data, textPosition, length)
    IN  IF threw THEN [threw |-> TRUE]
        ELSE [threw |-> FALSE,
              bytesRead |-> textPosition + length - position,
              properties |->
                  [color |-> IF hasColor
                             THEN Color(N(getUint8(data, colorPosition)),
                                        N(getUint8(data, colorPosition + 1)),
                                        N(getUint8(data, colorPosition + 2)))
                             ELSE Undefined,
                   alpha |-> IF hasAlpha THEN getFloat32(data, alphaPosition, LITTLE_ENDIAN)
                             ELSE Undefined,
                   shape |-> IF length > 0
                             THEN Str(TextDecode(LoadBytes(data, textPosition, length)))
                             ELSE Undefined]]

(***************************************************************************)
(* RingGizmoPropertyGroup.readEntitySubclassDataFromBuffer.  The ring      *)
(* flags are members of EntityPropertyList, named here by their identifier.*)
(***************************************************************************)
\* Mutant of RingGizmoPropertyGroup_readEntitySubclassDataFromBuffer: the
\* start angle is read from the buffer, as the C++ reader does.
RingGizmoPropertyGroup_readEntitySubclassDataFromBuffer_ReadsStartAngle(data, position, propertyFlags) ==
    LET p1 == position + (IF getHasProperty(propertyFlags, "PROP_START_ANGLE") THEN 4 ELSE 0)
        p2 == p1 + (IF getHasProperty(propertyFlags, "PROP_END_ANGLE") THEN 4 ELSE 0)
        p3 == p2 + (IF getHasProperty(propertyFlags, "PROP_INNER_RADIUS") THEN 4 ELSE 0)
        p4 == p3 + (IF getHasProperty(propertyFlags, "PROP_INNER_START_COLOR") THEN 3 ELSE 0)
        p5 == p4 + (IF getHasProperty(propertyFlags, "PROP_INNER_END_COLOR") THEN 3 ELSE 0)
        p6 == p5 + (IF getHasProperty(propertyFlags, "PROP_OUTER_START_COLOR") THEN 3 ELSE 0)
        p7 == p6 + (IF getHasProperty(propertyFlags, "PROP_OUTER_END_COLOR") THEN 3 ELSE 0)
        p8 == p7 + (IF getHasProperty(propertyFlags, "PROP_INNER_START_ALPHA") THEN 4 ELSE 0)
        p9 == p8 + (IF getHasProperty(propertyFlags, "PROP_INNER_END_ALPHA") THEN 4 ELSE 0)
        p10 == p9 + (IF getHasProperty(propertyFlags, "PROP_OUTER_START_ALPHA") THEN 4 ELSE 0)
        p11 == p10 + (IF getHasProperty(propertyFlags, "PROP_OUTER_END_ALPHA") THEN 4 ELSE 0)
        p12 == p11 + (IF getHasProperty(propertyFlags, "PROP_HAS_TICK_MARKS") THEN 1 ELSE 0)
        p13 == p12 + (IF getHasProperty(propertyFlags, "PROP_MAJOR_TICK_MARKS_ANGLE") THEN 4 ELSE 0)
        p14 == p13 + (IF getHasProperty(propertyFlags, "PROP_MINOR_TICK_MARKS_ANGLE") THEN 4 ELSE 0)
        p15 == p14 + (IF getHasProperty(propertyFlags, "PROP_MAJOR_TICK_MARKS_LENGTH") THEN 4 ELSE 0)
        p16 == p15 + (IF getHasProperty(propertyFlags, "PROP_MINOR_TICK_MARKS_LENGTH") THEN 4 ELSE 0)
        p17 == p16 + (IF getHasProperty(propertyFlags, "PROP_MAJOR_TICK_MARKS_COLOR") THEN 3 ELSE 0)
        p18 == p17 + (IF getHasProperty(propertyFlags, "PROP_MINOR_TICK_MARKS_COLOR") THEN 3 ELSE 0)
        hasStartAngle == getHasProperty(propertyFlags, "PROP_START_ANGLE")
    IN  IF hasStartAngle /\ ~InView(data, position, 4)
        THEN [threw |-> TRUE]
        ELSE [threw |-> FALSE, bytesRead |-> p18 - position,
              properties |-> IF hasStartAngle
                             THEN [startAngle |-> getFloat32(data, position, LITTLE_ENDIAN)]
                             ELSE << >>]

\* The dataPosition after each "if (propertyFlags.getHasProperty(...))" in
\* turn; properties is the empty object.
RingGizmoPropertyGroup_readEntitySubclassDataFromBuffer(data, position, propertyFlags) ==
    LET p1 == position + (IF getHasProperty(propertyFlags, "PROP_START_ANGLE") THEN 4 ELSE 0)
        p2 == p1 + (IF getHasProperty(propertyFlags, "PROP_END_ANGLE") THEN 4 ELSE 0)
        p3 == p2 + (IF getHasProperty(propertyFlags, "PROP_INNER_RADIUS") THEN 4 ELSE 0)
        p4 == p3 + (IF getHasProperty(propertyFlags, "PROP_INNER_START_COLOR") THEN 3 ELSE 0)
        p5 == p4 + (IF getHasProperty(propertyFlags, "PROP_INNER_END_COLOR") THEN 3 ELSE 0)
        p6 == p5 + (IF getHasProperty(propertyFlags, "PROP_OUTER_START_COLOR") THEN 3 ELSE 0)
        p7 == p6 + (IF getHasProperty(propertyFlags, "PROP_OUTER_END_COLOR") THEN 3 ELSE 0)
        p8 == p7 + (IF getHasProperty(propertyFlags, "PROP_INNER_START_ALPHA") THEN 4 ELSE 0)
        p9 == p8 + (IF getHasProperty(propertyFlags, "PROP_INNER_END_ALPHA") THEN 4 ELSE 0)
        p10 == p9 + (IF getHasProperty(propertyFlags, "PROP_OUTER_START_ALPHA") THEN 4 ELSE 0)
        p11 == p10 + (IF getHasProperty(propertyFlags, "PROP_OUTER_END_ALPHA") THEN 4 ELSE 0)
        p12 == p11 + (IF getHasProperty(propertyFlags, "PROP_HAS_TICK_MARKS") THEN 1 ELSE 0)
        p13 == p12 + (IF getHasProperty(propertyFlags, "PROP_MAJOR_TICK_MARKS_ANGLE") THEN 4 ELSE 0)
        p14 == p13 + (IF getHasProperty(propertyFlags, "PROP_MINOR_TICK_MARKS_ANGLE") THEN 4 ELSE 0)
        p15 == p14 + (IF getHasProperty(propertyFlags, "PROP_MAJOR_TICK_MARKS_LENGTH") THEN 4 ELSE 0)
        p16 == p15 + (IF getHasProperty(propertyFlags, "PROP_MINOR_TICK_MARKS_LENGTH") THEN 4 ELSE 0)
        p17 == p16 + (IF getHasProperty(propertyFlags, "PROP_MAJOR_TICK_MARKS_COLOR") THEN 3 ELSE 0)
        p18 == p17 + (IF getHasProperty(propertyFlags, "PROP_MINOR_TICK_MARKS_COLOR") THEN 3 ELSE 0)
    IN  [threw |-> FALSE, bytesRead |-> p18 - position, properties |-> << >>]

(***************************************************************************)
(* State.                                                                  *)
(***************************************************************************)
VARIABLES
    data,           \* the DataView of the packet being written
    dataPosition,   \* the caller's write position in data
    packetContext,  \* the OctreePacketContext
    call,           \* the last appender call: its arguments, result and pre-state
    ncalls,         \* appender calls made so far
    limit,          \* appender calls allowed in this run
    signalingChannels,  \* the WebRTCSignalingChannel objects, by id
    dataChannels,       \* the WebRTCDataChannel objects, by id
    wire,               \* payloads in flight to and from the server, per connection
    event,              \* the last call or packet whose outcome is observed
    nodeList,           \* the client: DomainServer, NodeList, DomainHandler, Socket
    server              \* the domain server: its policy and the request it holds

vars == <<data, dataPosition, packetContext, call, ncalls, limit,
          signalingChannels, dataChannels, wire, event, nodeList, server>>

\* The networking state, which no packet operation touches.
netVars == <<signalingChannels, dataChannels, wire, event, nodeList, server>>
NoEvent == [op |-> "none"]
NetOff ==
    /\ signalingChannels = << >>
    /\ dataChannels = << >>
    /\ wire = << >>
    /\ event = NoEvent
    /\ nodeList = << >>
    /\ server = << >>

NoCall == [op |-> "none"]

\* The view as the next call finds it: bytes kept, write log cleared.
Fresh(dv) == [dv EXCEPT !.wr = {}, !.err = FALSE]

\* One appender call by a caller that advances its position by the result.
DoCall(op, flag, value, r) ==
    /\ ncalls < limit
    /\ data' = r.data
    /\ packetContext' = r.packetContext
    /\ dataPosition' = dataPosition + r.ret
    /\ call' = [op |-> op, dataPosition |-> dataPosition, flag |-> flag, value |-> value,
                ret |-> r.ret, threw |-> r.threw,
                preBytes |-> data.bytes, preContext |-> packetContext]
    /\ ncalls' = ncalls + 1
    /\ UNCHANGED limit
    /\ UNCHANGED netVars

AppendAACube ==
    \E flag \in Flags, value \in AACubeValues :
        DoCall("appendAACubeValue", flag, value,
               appendAACubeValue(Fresh(data), dataPosition, flag, value, packetContext))
AppendArrayBuffer ==
    \E flag \in Flags, value \in ArrayBufferValues :
        DoCall("appendArrayBufferValue", flag, value,
               appendArrayBufferValue(Fresh(data), dataPosition, flag, value, packetContext))
AppendBooleanArray ==
    \E flag \in Flags, value \in BooleanArrayValues :
        DoCall("appendBooleanArray", flag, value,
               appendBooleanArray(Fresh(data), dataPosition, flag, value, packetContext))
AppendBoolean ==
    \E flag \in Flags, value \in BooleanValues :
        DoCall("appendBooleanValue", flag, value,
               appendBooleanValue(Fresh(data), dataPosition, flag, value, packetContext))
AppendColor ==
    \E flag \in Flags, value \in ColorValues :
        DoCall("appendColorValue", flag, value,
               appendColorValue(Fresh(data), dataPosition, flag, value, packetContext))
AppendFloat32 ==
    \E flag \in Flags, value \in Float32Values, littleEndian \in BOOLEAN :
        DoCall("appendFloat32Value", flag, value,
               appendFloat32Value(Fresh(data), dataPosition, flag, value, littleEndian, packetContext))
AppendQuatArray ==
    \E flag \in Flags, value \in QuatArrayValues :
        DoCall("appendQuatArray", flag, value,
               appendQuatArray(Fresh(data), dataPosition, flag, value, packetContext))
AppendQuat ==
    \E flag \in Flags, value \in QuatValues :
        DoCall("appendQuatValue", flag, value,
               appendQuatValue(Fresh(data), dataPosition, flag, value, packetContext))
AppendRect ==
    \E flag \in Flags, value \in RectValues :
        DoCall("appendRectValue", flag, value,
               appendRectValue(Fresh(data), dataPosition, flag, value, packetContext))
AppendString ==
    \E flag \in Flags, value \in StringValues :
        DoCall("appendStringValue", flag, value,
               appendStringValue(Fresh(data), dataPosition, flag, value, packetContext))
AppendUint8 ==
    \E flag \in Flags, value \in Uint8Values :
        DoCall("appendUint8Value", flag, value,
               appendUint8Value(Fresh(data), dataPosition, flag, value, packetContext))
AppendUint16 ==
    \E flag \in Flags, value \in Uint16Values, littleEndian \in BOOLEAN :
        DoCall("appendUint16Value", flag, value,
               appendUint16Value(Fresh(data), dataPosition, flag, value, littleEndian, packetContext))
AppendUint32 ==
    \E flag \in Flags, value \in Uint32Values, littleEndian \in BOOLEAN :
        DoCall("appendUint32Value", flag, value,
               appendUint32Value(Fresh(data), dataPosition, flag, value, littleEndian, packetContext))
AppendUint64 ==
    \E flag \in Flags, value \in Uint64Values, littleEndian \in BOOLEAN :
        DoCall("appendUint64Value", flag, value,
               appendUint64Value(Fresh(data), dataPosition, flag, value, littleEndian, packetContext))
AppendUuidArray ==
    \E flag \in Flags, value \in UuidArrayValues :
        DoCall("appendUuidArray", flag, value,
               appendUuidArray(Fresh(data), dataPosition, flag, value, packetContext))
AppendUuid ==
    \E flag \in Flags, value \in UuidValues :
        DoCall("appendUuidValue", flag, value,
               appendUuidValue(Fresh(data), dataPosition, flag, value, packetContext))
AppendVec2 ==
    \E flag \in Flags, value \in Vec2Values :
        DoCall("appendVec2Value", flag, value,
               appendVec2Value(Fresh(data), dataPosition, flag, value, packetContext))
AppendVec3Array ==
    \E flag \in Flags, value \in Vec3ArrayValues :
        DoCall("appendVec3Array", flag, value,
               appendVec3Array(Fresh(data), dataPosition, flag, value, packetContext))
AppendVec3 ==
    \E flag \in Flags, value \in Vec3Values :
        DoCall("appendVec3Value", flag, value,
               appendVec3Value(Fresh(data), dataPosition, flag, value, packetContext))

AppendNext ==
    \/ AppendAACube \/ AppendArrayBuffer \/ AppendBooleanArray \/ AppendBoolean
    \/ AppendColor \/ AppendFloat32 \/ AppendQuatArray \/ AppendQuat \/ AppendRect
    \/ AppendString \/ AppendUint8 \/ AppendUint16 \/ AppendUint32 \/ AppendUint64
    \/ AppendUuidArray \/ AppendUuid \/ AppendVec2 \/ AppendVec3Array \/ AppendVec3

\* A single appender call at any offset of any view, on any packet context.
AppendInit ==
    /\ \E len \in 0..MaxBufLen : data = NewDataView(len)
    /\ dataPosition \in { p \in 0..data.byteLength : p <= MaxOffset }
    /\ packetContext \in { c \in Contexts : c.propertiesToWrite \cap c.propertiesWritten = {} }
    /\ call = NoCall
    /\ ncalls = 0
    /\ limit = 1
    /\ NetOff

SpecAppend == AppendInit /\ [][AppendNext]_vars

(***************************************************************************)
(* A sequence of appender calls on one packet, each at the position the    *)
(* previous ones left, as an encoder issues them.                          *)
(***************************************************************************)
AppenderNames ==
    { "appendAACubeValue", "appendArrayBufferValue", "appendBooleanArray", "appendBooleanValue",
      "appendColorValue", "appendFloat32Value", "appendQuatArray", "appendQuatValue",
      "appendRectValue", "appendStringValue", "appendUint8Value", "appendUint16Value",
      "appendUint32Value", "appendUint64Value", "appendUuidArray", "appendUuidValue",
      "appendVec2Value", "appendVec3Array", "appendVec3Value" }

\* Dispatch on the appender's name.
CallAppender(op, dv, pos, flag, value, littleEndian, ctx) ==
    CASE op = "appendAACubeValue" -> appendAACubeValue(dv, pos, flag, value, ctx)
      [] op = "appendArrayBufferValue" -> appendArrayBufferValue(dv, pos, flag, value, ctx)
      [] op = "appendBooleanArray" -> appendBooleanArray(dv, pos, flag, value, ctx)
      [] op = "appendBooleanValue" -> appendBooleanValue(dv, pos, flag, value, ctx)
      [] op = "appendColorValue" -> appendColorValue(dv, pos, flag, value, ctx)
      [] op = "appendFloat32Value" -> appendFloat32Value(dv, pos, flag, value, littleEndian, ctx)
      [] op = "appendQuatArray" -> appendQuatArray(dv, pos, flag, value, ctx)
      [] op = "appendQuatValue" -> appendQuatValue(dv, pos, flag, value, ctx)
      [] op = "appendRectValue" -> appendRectValue(dv, pos, flag, value, ctx)
      [] op = "appendStringValue" -> appendStringValue(dv, pos, flag, value, ctx)
      [] op = "appendUint8Value" -> appendUint8Value(dv, pos, flag, value, ctx)
      [] op = "appendUint16Value" -> appendUint16Value(dv, pos, flag, value, littleEndian, ctx)
      [] op = "appendUint32Value" -> appendUint32Value(dv, pos, flag, value, littleEndian, ctx)
      [] op = "appendUint64Value" -> appendUint64Value(dv, pos, flag, value, littleEndian, ctx)
      [] op = "appendUuidArray" -> appendUuidArray(dv, pos, flag, value, ctx)
      [] op = "appendUuidValue" -> appendUuidValue(dv, pos, flag, value, ctx)
      [] op = "appendVec2Value" -> appendVec2Value(dv, pos, flag, value, ctx)
      [] op = "appendVec3Array" -> appendVec3Array(dv, pos, flag, value, ctx)
      [] op = "appendVec3Value" -> appendVec3Value(dv, pos, flag, value, ctx)

\* One accepted and one rejected value per appender.
SequenceValues ==
    [appendAACubeValue |->
         { AACube(Obj3(N(0), N(1), Neg(2)), N(3)),
           AACube(Obj3(N(0), N(1), Neg(2)), Neg(1)) },
     appendArrayBufferValue |-> { ArrayBuffer(<<1, 2, 3>>), Undefined },
     appendBooleanArray |->
         { Array(<<Bool(TRUE), Bool(FALSE), Bool(TRUE)>>), Array(<<Bool(TRUE), N(1)>>) },
     appendBooleanValue |-> { Bool(TRUE), Undefined },
     appendColorValue |-> { Color(N(240), N(37), N(148)), Color(N(1), N(2), Undefined) },
     appendFloat32Value |-> { N(15), NaN },
     appendQuatArray |->
         { Array(<<Quat(N(0), N(0), N(0), N(1))>>),
           Array(<<Quat(N(0), N(0), N(0), Undefined)>>) },
     appendQuatValue |-> QuatValues,
     appendRectValue |-> RectValues,
     appendStringValue |-> { Str(<<65, 98>>), Undefined },
     appendUint8Value |-> { N(7), N(256) },
     appendUint16Value |-> Uint16Values,
     appendUint32Value |-> Uint32Values,
     appendUint64Value |-> { BigInt(FALSE, <<8, 7, 6, 5, 4, 3, 2, 1>>), N(5) },
     appendUuidArray |-> { Array(<<LastEditedByUuid>>), Array(<<Undefined>>) },
     appendUuidValue |-> { LastEditedByUuid, Undefined },
     appendVec2Value |-> Vec2Values,
     appendVec3Array |->
         { Array(<<Obj3(N(1), N(2), N(3))>>),
           Array(<<Obj3(Infinity(TRUE), N(0), N(0))>>) },
     appendVec3Value |-> Vec3Values]

AppendInSequence ==
    \E op \in AppenderNames, flag \in Flags :
        \E value \in SequenceValues[op] :
            DoCall(op, flag, value,
                   CallAppender(op, Fresh(data), dataPosition, flag, value, LITTLE_ENDIAN, packetContext))

\* A new packet of MaxBufLen bytes with every flag still to write.
SequenceInit ==
    /\ data = NewDataView(MaxBufLen)
    /\ dataPosition = 0
    /\ packetContext = [propertiesToWrite |-> Flags, propertiesWritten |-> {},
                        propertyCount |-> 0, appendState |-> COMPLETED]
    /\ call = NoCall
    /\ ncalls = 0
    /\ limit = MaxCalls
    /\ NetOff

SpecAppendSequence == SequenceInit /\ [][AppendInSequence]_vars

(***************************************************************************)
(* The 128-bit DataView extensions, called on one view: a write at any     *)
(* offset and endianness, a read at any offset and endianness.             *)
(***************************************************************************)
\* 0, 2^64, 0x100f0e...0201, 2^128 - 1 and 2^128.
U128Values ==
    {<< >>,
     [i \in 1..9 |-> IF i = 9 THEN 1 ELSE 0],
     [i \in 1..16 |-> i],
     MAX_U128_VALUE,
     [i \in 1..17 |-> IF i = 17 THEN 1 ELSE 0],
     [i \in 1..17 |-> i]}

\* Every offset at which 16 bytes fit in the view, and the first at which
\* they do not.
U128Offsets == 0..(MaxBufLen - 15)

SetBigUint128 ==
    \E byteOffset \in U128Offsets, value \in U128Values, littleEndian \in BOOLEAN :
        LET dv == setBigUint128(Fresh(data), byteOffset, value, littleEndian)
        IN  /\ ncalls < limit
            /\ data' = dv
            /\ call' = [op |-> "setBigUint128", byteOffset |-> byteOffset, value |-> value,
                        littleEndian |-> littleEndian, threw |-> dv.err]
            /\ ncalls' = ncalls + 1
            /\ UNCHANGED <<dataPosition, packetContext, limit>>
            /\ UNCHANGED netVars

GetBigUint128 ==
    \E byteOffset \in U128Offsets, littleEndian \in BOOLEAN :
        /\ ncalls < limit
        /\ call' = [op |-> "getBigUint128", byteOffset |-> byteOffset,
                    littleEndian |-> littleEndian,
                    result |-> getBigUint128(data, byteOffset, littleEndian),
                    threw |-> \/ LoadBytes(data, byteOffset, 8) = << >>
                              \/ LoadBytes(data, byteOffset + 8, 8) = << >>,
                    prev |-> IF call.op = "setBigUint128" THEN call ELSE NoCall]
        /\ ncalls' = ncalls + 1
        /\ UNCHANGED <<data, dataPosition, packetContext, limit>>
        /\ UNCHANGED netVars

U128Next == SetBigUint128 \/ GetBigUint128

\* The view starts zeroed or holding earlier content (every byte 0xff).
U128Init ==
    /\ data \in {NewDataView(MaxBufLen),
                 [NewDataView(MaxBufLen) EXCEPT !.bytes = [i \in 1..MaxBufLen |-> 255]]}
    /\ dataPosition = 0
    /\ packetContext = [propertiesToWrite |-> {}, propertiesWritten |-> {},
                        propertyCount |-> 0, appendState |-> COMPLETED]
    /\ call = NoCall
    /\ ncalls = 0
    /\ limit = MaxCalls
    /\ NetOff

SpecU128 == U128Init /\ [][U128Next]_vars

(***************************************************************************)
(* PropertyFlags on the wire and EntityItemProperties.encodeEntityEditPacket *)
(* as the design describes them, over the appenders above.                 *)
(***************************************************************************)
PROP_GRAB_GRABBABLE == 28
PROP_ANIMATION_FPS == 104
\* The property identifiers an edit can carry here, in enumeration order.
EntityPropertyList == <<PROP_LAST_EDITED_BY, PROP_GRAB_GRABBABLE, PROP_COLOR, PROP_ANIMATION_FPS>>

\* The length an encoded flag block can reach (all identifiers set).
MAX_FLAGS_BYTES == 19
\* Octal code, lastEdited, entity ID, entity type, update delta.
HEADER_BYTES == 27

MaxFlag(flags) == CHOOSE f \in flags : \A g \in flags : g <= f

\* PropertyFlags.encode: n bytes, n the least with room for the highest flag;
\* n - 1 one bits, a zero bit, then the presence bit of flag f at bit n + f
\* (bits counted from the most significant bit of the first byte).
FlagsLength(flags) == IF flags = {} THEN 1 ELSE (MaxFlag(flags) \div 7) + 1
FlagBit(flags, n, p) == IF p < n - 1 THEN TRUE ELSE IF p = n - 1 THEN FALSE ELSE (p - n) \in flags
encode(flags) ==
    LET n == FlagsLength(flags)
        BitValue(i, b) == IF FlagBit(flags, n, 8 * (i - 1) + b) THEN Pow2(7 - b) ELSE 0
    IN  [i \in 1..n |-> BitValue(i, 0) + BitValue(i, 1) + BitValue(i, 2) + BitValue(i, 3)
                        + BitValue(i, 4) + BitValue(i, 5) + BitValue(i, 6) + BitValue(i, 7)]

\* PropertyFlags.decode: the flags of the block that starts at bytes[1].
LeadingOnes(bytes) ==
    LET BitAt(p) == (bytes[(p \div 8) + 1] \div Pow2(7 - (p % 8))) % 2 = 1
    IN  CHOOSE k \in 0..(8 * Len(bytes)) :
            /\ \A p \in 0..(k - 1) : BitAt(p)
            /\ (k = 8 * Len(bytes) \/ ~BitAt(k))
decode(bytes) ==
    LET n == LeadingOnes(bytes) + 1
        BitAt(p) == p < 8 * Len(bytes) /\ (bytes[(p \div 8) + 1] \div Pow2(7 - (p % 8))) % 2 = 1
    IN  {p - n : p \in {q \in n..(8 * n - 1) : BitAt(q)}}

\* The one-byte code of an entity type.
EntityTypeCode(entityType) ==
    CASE entityType = "Box" -> 64
      [] entityType = "Model" -> 16
      [] entityType = "Shape" -> 96

\* PropertyFlags.isEmpty.
isEmpty(flags) == flags = {}

\* Mutant of getChangedProperties: property groups are not walked.
getChangedProperties_PrimaryOnly(properties) ==
    (IF properties.lastEditedBy.t # "undefined" THEN {PROP_LAST_EDITED_BY} ELSE {})
    \cup (IF properties.color.t # "undefined" THEN {PROP_COLOR} ELSE {})

\* EntityItemProperties.getChangedProperties: the identifiers of the keys
\* supplied, property groups walked.
getChangedProperties(properties) ==
    (IF properties.lastEditedBy.t # "undefined" THEN {PROP_LAST_EDITED_BY} ELSE {})
    \cup (IF properties.grab.t # "undefined" /\ properties.grab.grabbable.t # "undefined"
          THEN {PROP_GRAB_GRABBABLE} ELSE {})
    \cup (IF properties.color.t # "undefined" THEN {PROP_COLOR} ELSE {})
    \cup (IF properties.animation.t # "undefined" /\ properties.animation.fps.t # "undefined"
          THEN {PROP_ANIMATION_FPS} ELSE {})

\* The matching appender of a property identifier, on the property's value.
AppendProperty(dv, pos, flag, properties, ctx) ==
    CASE flag = PROP_LAST_EDITED_BY ->
             appendUuidValue(dv, pos, flag, properties.lastEditedBy, ctx)
      [] flag = PROP_GRAB_GRABBABLE ->
             appendBooleanValue(dv, pos, flag, properties.grab.grabbable, ctx)
      [] flag = PROP_COLOR ->
             appendColorValue(dv, pos, flag, properties.color, ctx)
      [] flag = PROP_ANIMATION_FPS ->
             appendFloat32Value(dv, pos, flag, properties.animation.fps, LITTLE_ENDIAN, ctx)

\* One property: the write position advances by what the appender returns;
\* rets keeps each property's return.
AppendOne(st, flag, properties) ==
    LET r == AppendProperty(st.data, st.dataPosition, flag, properties, st.packetContext)
    IN  [data |-> r.data, dataPosition |-> st.dataPosition + r.ret,
         packetContext |-> r.packetContext, rets |-> st.rets @@ (flag :> r.ret)]

RECURSIVE AppendProperties(_, _, _)
\* Step 3: each requested property, in order, through its appender.
AppendProperties(flags, st, properties) ==
    IF flags = << >> THEN st
    ELSE LET next == AppendOne(st, Head(flags), properties)
         IN  AppendProperties(Tail(flags), next, properties)

\* Mutant of WriteHeader: the update delta is taken from a clock, here the
\* number of calls made so far, instead of being 0.
WriteHeader_ClockDelta(dv, start, entityID, properties, requestedProperties) ==
    LET h1 == setUint8(dv, start, N(0))
        h2 == setBigUint64(h1, start + 1, properties.lastEdited.big, LITTLE_ENDIAN)
        h3 == setBigUint128(h2, start + 9, entityID.u, BIG_ENDIAN)
        h4 == setUint8(h3, start + 25, N(EntityTypeCode(properties.entityType)))
        h5 == setUint8(h4, start + 26, N(ncalls))
        reserved == encode(requestedProperties)
                        \o [i \in 1..(MAX_FLAGS_BYTES - FlagsLength(requestedProperties)) |-> 0]
    IN  StoreBytes(h5, start + HEADER_BYTES, reserved)

\* Step 2: octal code, lastEdited, entity ID, entity type, update delta, and
\* the flag block of the requested properties at its greatest length.
WriteHeader(dv, start, entityID, properties, requestedProperties) ==
    LET h1 == setUint8(dv, start, N(0))
        h2 == setBigUint64(h1, start + 1, properties.lastEdited.big, LITTLE_ENDIAN)
        h3 == setBigUint128(h2, start + 9, entityID.u, BIG_ENDIAN)
        h4 == setUint8(h3, start + 25, N(EntityTypeCode(properties.entityType)))
        h5 == setUint8(h4, start + 26, N(0))
        reserved == encode(requestedProperties)
                        \o [i \in 1..(MAX_FLAGS_BYTES - FlagsLength(requestedProperties)) |-> 0]
    IN  StoreBytes(h5, start + HEADER_BYTES, reserved)

\* The flag block rewritten from what was written, at its own length, and the
\* payload moved up against it.
PackFlags(dv, propertyFlagsOffset, end, written) ==
    StoreBytes(dv, propertyFlagsOffset,
               written \o [i \in 1..(end - propertyFlagsOffset - MAX_FLAGS_BYTES) |->
                              dv.bytes[propertyFlagsOffset + MAX_FLAGS_BYTES + i]])

\* Step 4: the result, a being the outcome of step 3.
FinishPacket(start, a) ==
    IF a.packetContext.propertyCount > 0
    THEN [data |-> PackFlags(a.data, start + HEADER_BYTES, a.dataPosition,
                             encode(a.packetContext.propertiesWritten)),
          dataPosition |-> a.dataPosition - MAX_FLAGS_BYTES
                               + FlagsLength(a.packetContext.propertiesWritten),
          packetContext |-> a.packetContext,
          didntFitProperties |-> a.packetContext.propertiesToWrite,
          appendState |-> a.packetContext.appendState,
          rets |-> a.rets]
    ELSE [data |-> a.data,
          dataPosition |-> start,
          packetContext |-> [a.packetContext EXCEPT !.appendState = NONE],
          didntFitProperties |-> a.packetContext.propertiesToWrite,
          appendState |-> NONE,
          rets |-> a.rets]

encodeEntityEditPacket(entityID, properties, messageData, requestedProperties) ==
    LET start == messageData.dataPosition
        order == SelectSeq(EntityPropertyList, LAMBDA f : getHasProperty(requestedProperties, f))
        st == [data |-> WriteHeader(messageData.buffer, start, entityID, properties,
                                    requestedProperties),
               dataPosition |-> start + HEADER_BYTES + MAX_FLAGS_BYTES,
               packetContext |-> [propertiesToWrite |-> requestedProperties,
                                  propertiesWritten |-> {},
                                  propertyCount |-> 0,
                                  appendState |-> COMPLETED],
               rets |-> << >>]
        a == AppendProperties(order, st, properties)
    IN  FinishPacket(start, a)

\* 1688896885851574n and b71d5380-2fcc-4833-93a7-9a4967017587.
LastEdited == BigInt(FALSE, <<182, 133, 241, 242, 10, 0, 6, 0>>)
EntityID ==
    Uuid(<<135, 117, 1, 103, 73, 154, 167, 147, 51, 72, 204, 47, 128, 83, 29, 183>>)

\* Property bags: every key present or absent; a null lastEditedBy, an
\* animation rate that is not a number and an animation group given without
\* its rate included.
PropertyBags ==
    { [lastEdited |-> LastEdited, entityType |-> entityType, lastEditedBy |-> lastEditedBy,
       grab |-> grab, color |-> color, animation |-> animation] :
          entityType \in {"Box", "Model", "Shape"},
          lastEditedBy \in {Undefined, LastEditedByUuid, NullUuid},
          grab \in {Undefined, [t |-> "object", grabbable |-> Bool(TRUE)]},
          color \in {Undefined, Color(N(240), N(37), N(148))},
          animation \in {Undefined, [t |-> "object", fps |-> N(15)],
                         [t |-> "object", fps |-> NaN],
                         [t |-> "object", fps |-> Undefined]} }

\* Room after the header and the reserved flag block, from none to more than
\* every property of a bag takes (18 + 1 + 3 + 4 bytes).
MaxFree == 27

EncodeEntityEditPacket ==
    \E properties \in PropertyBags :
        LET r == encodeEntityEditPacket(EntityID, properties,
                                         [buffer |-> Fresh(data), dataPosition |-> dataPosition],
                                         getChangedProperties(properties))
        IN
            /\ ncalls < limit
            /\ data' = r.data
            /\ dataPosition' = r.dataPosition
            /\ packetContext' = r.packetContext
            /\ call' = [op |-> "encodeEntityEditPacket", properties |-> properties,
                        requestedProperties |-> getChangedProperties(properties),
                        didntFitProperties |-> r.didntFitProperties,
                        appendState |-> r.appendState, rets |-> r.rets,
                        dataPosition |-> dataPosition]
            /\ ncalls' = ncalls + 1
            /\ UNCHANGED limit
            /\ UNCHANGED netVars

\* A zeroed message buffer that holds at least the header and the reserved
\* flag block from the write position on.
EncodeInit ==
    /\ dataPosition \in {0, MaxOffset}
    /\ \E free \in 0..MaxFree :
           data = NewDataView(dataPosition + HEADER_BYTES + MAX_FLAGS_BYTES + free)
    /\ packetContext = [propertiesToWrite |-> {}, propertiesWritten |-> {},
                        propertyCount |-> 0, appendState |-> COMPLETED]
    /\ call = NoCall
    /\ ncalls = 0
    /\ limit = 1
    /\ NetOff

SpecEncode == EncodeInit /\ [][EncodeEntityEditPacket]_vars

(***************************************************************************)
(* The encoder called twice with the same inputs: the second call gets a   *)
(* new zeroed buffer of the size of the first and the write position the   *)
(* first call was given; call.first keeps what the first call produced.    *)
(***************************************************************************)
\* The property bags of a Shape entity.
ShapeEdits ==
    { [lastEdited |-> LastEdited, entityType |-> "Shape", lastEditedBy |-> lastEditedBy,
       grab |-> grab, color |-> color, animation |-> animation] :
          lastEditedBy \in {Undefined, LastEditedByUuid, NullUuid},
          grab \in {Undefined, [t |-> "object", grabbable |-> Bool(TRUE)]},
          color \in {Undefined, Color(N(240), N(37), N(148))},
          animation \in {Undefined, [t |-> "object", fps |-> N(15)],
                         [t |-> "object", fps |-> NaN],
                         [t |-> "object", fps |-> Undefined]} }

EncodeFirst ==
    \E properties \in ShapeEdits :
        LET r == encodeEntityEditPacket(EntityID, properties,
                                         [buffer |-> Fresh(data), dataPosition |-> dataPosition],
                                         getChangedProperties(properties))
        IN
            /\ call = NoCall
            /\ ncalls < limit
            /\ data' = r.data
            /\ dataPosition' = r.dataPosition
            /\ packetContext' = r.packetContext
            /\ call' = [op |-> "encodeEntityEditPacket", properties |-> properties,
                        requestedProperties |-> getChangedProperties(properties),
                        didntFitProperties |-> r.didntFitProperties,
                        appendState |-> r.appendState, rets |-> r.rets,
                        dataPosition |-> dataPosition]
            /\ ncalls' = ncalls + 1
            /\ UNCHANGED limit
            /\ UNCHANGED netVars

EncodeAgain ==
    /\ call.op = "encodeEntityEditPacket"
    /\ ncalls < limit
    /\ LET r == encodeEntityEditPacket(EntityID, call.properties,
                                        [buffer |-> NewDataView(data.byteLength),
                                         dataPosition |-> call.dataPosition],
                                        call.requestedProperties)
       IN  /\ data' = r.data
           /\ dataPosition' = r.dataPosition
           /\ packetContext' = r.packetContext
           /\ call' = [op |-> "encodeAgain", properties |-> call.properties,
                       requestedProperties |-> call.requestedProperties,
                       didntFitProperties |-> r.didntFitProperties,
                       appendState |-> r.appendState, rets |-> r.rets,
                       dataPosition |-> call.dataPosition,
                       first |-> [bytes |-> data.bytes, dataPosition |-> dataPosition,
                                  appendState |-> call.appendState,
                                  didntFitProperties |-> call.didntFitProperties]]
    /\ ncalls' = ncalls + 1
    /\ UNCHANGED limit
    /\ UNCHANGED netVars

EncodeTwiceNext == EncodeFirst \/ EncodeAgain

EncodeTwiceInit ==
    /\ dataPosition \in {0, MaxOffset}
    /\ \E free \in 0..MaxFree :
           data = NewDataView(dataPosition + HEADER_BYTES + MAX_FLAGS_BYTES + free)
    /\ packetContext = [propertiesToWrite |-> {}, propertiesWritten |-> {},
                        propertyCount |-> 0, appendState |-> COMPLETED]
    /\ call = NoCall
    /\ ncalls = 0
    /\ limit = 2
    /\ NetOff

SpecEncodeTwice == EncodeTwiceInit /\ [][EncodeTwiceNext]_vars

(***************************************************************************)
(* The appender contract as the specification words it: which values are   *)
(* valid and how many bytes a valid value serialises to.  These are the    *)
(* yardsticks of the properties below, written without reference to the    *)
(* appenders' own tests.                                                   *)
(***************************************************************************)
IsNumber(v) == v.t = "number"
\* A finite number of magnitude at most 3.4028235e38.
IsFloat32(v) == IsNumber(v) /\ v.k = "fin" /\ DigLE(v.mag, MAX_FLOAT32.mag)
IsBigInt(v) == v.t = "bigint"
\* An integer in 0 .. 2^(8w) - 1.
InUintRange(neg, mag, w) == (~neg \/ Norm(mag) = << >>) /\ Len(Norm(mag)) <= w

ContractValid(op, v) ==
    CASE op = "appendAACubeValue" ->
             /\ v.corner.t = "object" /\ IsFloat32(v.corner.x) /\ IsFloat32(v.corner.y)
             /\ IsFloat32(v.corner.z) /\ IsFloat32(v.scale)
             /\ (~v.scale.neg \/ Norm(v.scale.mag) = << >>)
      [] op = "appendArrayBufferValue" -> v.t = "ArrayBuffer"
      [] op = "appendBooleanArray" ->
             /\ v.t = "array" /\ Len(v.elems) <= 65535
             /\ \A i \in 1..Len(v.elems) : v.elems[i].t = "boolean"
      [] op = "appendBooleanValue" -> v.t = "boolean"
      [] op = "appendColorValue" -> IsNumber(v.red) /\ IsNumber(v.green) /\ IsNumber(v.blue)
      [] op = "appendFloat32Value" -> IsFloat32(v)
      [] op = "appendQuatArray" ->
             /\ v.t = "array" /\ Len(v.elems) <= 65535
             /\ \A i \in 1..Len(v.elems) :
                    /\ v.elems[i].t = "object" /\ IsNumber(v.elems[i].x) /\ IsNumber(v.elems[i].y)
                    /\ IsNumber(v.elems[i].z) /\ IsNumber(v.elems[i].w)
      [] op = "appendQuatValue" -> IsNumber(v.x) /\ IsNumber(v.y) /\ IsNumber(v.z) /\ IsNumber(v.w)
      [] op = "appendRectValue" ->
             IsNumber(v.x) /\ IsNumber(v.y) /\ IsNumber(v.width) /\ IsNumber(v.height)
      [] op = "appendStringValue" -> v.t = "string"
      [] op = "appendUint8Value" -> IsNumber(v) /\ v.k = "fin" /\ InUintRange(v.neg, v.mag, 1)
      [] op = "appendUint16Value" -> IsNumber(v) /\ v.k = "fin" /\ InUintRange(v.neg, v.mag, 2)
      [] op = "appendUint32Value" -> IsNumber(v) /\ v.k = "fin" /\ InUintRange(v.neg, v.mag, 4)
      [] op = "appendUint64Value" -> IsBigInt(v) /\ InUintRange(v.neg, v.big, 8)
      [] op = "appendUuidArray" ->
             /\ v.t = "array" /\ Len(v.elems) <= 65535
             /\ \A i \in 1..Len(v.elems) : v.elems[i].t = "Uuid"
      [] op = "appendUuidValue" -> v.t = "Uuid"
      [] op = "appendVec2Value" -> IsFloat32(v.x) /\ IsFloat32(v.y)
      [] op = "appendVec3Array" ->
             /\ v.t = "array" /\ Len(v.elems) <= 65535
             /\ \A i \in 1..Len(v.elems) :
                    IsFloat32(v.elems[i].x) /\ IsFloat32(v.elems[i].y) /\ IsFloat32(v.elems[i].z)
      [] op = "appendVec3Value" -> IsFloat32(v.x) /\ IsFloat32(v.y) /\ IsFloat32(v.z)

RECURSIVE Utf8Length(_)
\* Bytes of UTF-8 a sequence of code points takes.
Utf8Length(cp) ==
    IF cp = << >> THEN 0
    ELSE (IF Head(cp) < 128 THEN 1 ELSE IF Head(cp) < 2048 THEN 2
          ELSE IF Head(cp) < 65536 THEN 3 ELSE 4) + Utf8Length(Tail(cp))

\* The serialised size of a valid value.
ContractSize(op, v) ==
    CASE op = "appendAACubeValue" -> 16
      [] op = "appendArrayBufferValue" -> 2 + Len(v.bytes)
      [] op = "appendBooleanArray" -> 2 + ((Len(v.elems) + 7) \div 8)
      [] op = "appendBooleanValue" -> 1
      [] op = "appendColorValue" -> 3
      [] op = "appendFloat32Value" -> 4
      [] op = "appendQuatArray" -> 2 + 8 * Len(v.elems)
      [] op = "appendQuatValue" -> 8
      [] op = "appendRectValue" -> 16
      [] op = "appendStringValue" -> 2 + Utf8Length(v.cp)
      [] op = "appendUint8Value" -> 1
      [] op = "appendUint16Value" -> 2
      [] op = "appendUint32Value" -> 4
      [] op = "appendUint64Value" -> 8
      [] op = "appendUuidArray" -> 2 + 16 * Len(v.elems)
      [] op = "appendUuidValue" -> IF v.u = << >> THEN 2 ELSE 18
      [] op = "appendVec2Value" -> 8
      [] op = "appendVec3Array" -> 2 + 12 * Len(v.elems)
      [] op = "appendVec3Value" -> 12

Called == call.op # "none"
CallValid == ContractValid(call.op, call.value)
CallSize == ContractSize(call.op, call.value)
CallFits == call.dataPosition + CallSize <= data.byteLength
ContextUnchanged == packetContext = call.preContext
BytesUnchanged == data.bytes = call.preBytes

(***************************************************************************)
(* Properties of a single appender call (SpecAppend).                      *)
(***************************************************************************)
\* C1: buffer safety.  Whatever the appender, buffer length, offset and
\* value, the call attempts no write outside the buffer (no index >= the
\* byteLength is written, no RangeError is raised) and the offset plus the
\* returned byte count does not exceed the byteLength.
C1_BufferSafety ==
    Called =>
        /\ ~call.threw /\ ~data.err
        /\ \A i \in data.wr : 0 <= i /\ i < data.byteLength
        /\ call.dataPosition + call.ret <= data.byteLength

\* A non-null UUID written into a buffer it fills exactly, at a non-zero offset.
C1_Witness ==
    /\ call.op = "appendUuidValue" /\ call.ret = 18 /\ call.dataPosition > 0
    /\ call.dataPosition + call.ret = data.byteLength
    /\ Cardinality(data.wr) = 18

\* C2: successful append.  A valid value that fits returns its serialised
\* size N, moves the flag from propertiesToWrite to propertiesWritten, adds
\* exactly 1 to propertyCount and leaves appendState as it was.
C2_SuccessfulAppend ==
    (Called /\ CallValid /\ CallFits) =>
        /\ call.ret = CallSize
        /\ packetContext.propertiesToWrite = call.preContext.propertiesToWrite \ {call.flag}
        /\ packetContext.propertiesWritten = call.preContext.propertiesWritten \cup {call.flag}
        /\ packetContext.propertyCount = call.preContext.propertyCount + 1
        /\ packetContext.appendState = call.preContext.appendState

\* A fitting append of a flag still to write, on a context already PARTIAL.
C2_Witness ==
    /\ Called /\ CallValid /\ CallFits /\ call.ret > 0
    /\ call.flag \in call.preContext.propertiesToWrite
    /\ call.preContext.appendState = PARTIAL
    /\ call.preContext.propertiesWritten # {}

\* C3: value does not fit.  A valid value whose serialised size exceeds the
\* room left returns 0 and sets appendState to PARTIAL; propertiesToWrite,
\* propertiesWritten, propertyCount and every buffer byte are unchanged.
C3_DoesNotFit ==
    (Called /\ CallValid /\ ~CallFits) =>
        /\ call.ret = 0
        /\ packetContext.appendState = PARTIAL
        /\ packetContext.propertiesToWrite = call.preContext.propertiesToWrite
        /\ packetContext.propertiesWritten = call.preContext.propertiesWritten
        /\ packetContext.propertyCount = call.preContext.propertyCount
        /\ BytesUnchanged /\ data.wr = {}

\* A valid value one byte too long for the room left, on a COMPLETED context.
C3_Witness ==
    /\ Called /\ CallValid /\ call.dataPosition + CallSize = data.byteLength + 1
    /\ call.preContext.appendState = COMPLETED
    /\ call.flag \in call.preContext.propertiesToWrite

C5_DisjointFlags == packetContext.propertiesToWrite \cap packetContext.propertiesWritten = {}

\* Two calls made, the second re-appending a flag that was already written.
C5_Witness ==
    /\ ncalls >= 2 /\ call.ret > 0
    /\ call.flag \in call.preContext.propertiesWritten
    /\ packetContext.propertiesWritten # {}
    /\ packetContext.propertiesToWrite # {}

\* C6: for every value 0 <= x <= 2^128 - 1, every offset at which 16 bytes
\* fit and either endianness, getBigUint128 at the offset and endianness of
\* the setBigUint128 just made returns x.
C6_RoundTrip128 ==
    (/\ call.op = "getBigUint128"
     /\ call.prev.op = "setBigUint128"
     /\ call.prev.byteOffset = call.byteOffset
     /\ call.prev.littleEndian = call.littleEndian
     /\ call.byteOffset + 16 <= data.byteLength
     /\ DigLE(call.prev.value, MAX_U128_VALUE))
    => (/\ ~call.threw
        /\ ~call.prev.threw
        /\ call.result = Norm(call.prev.value))

\* A big-endian round trip of 0x100f0e...0201 at a non-zero offset over
\* earlier content.
C6_Witness ==
    /\ call.op = "getBigUint128"
    /\ call.prev.op = "setBigUint128"
    /\ call.prev.byteOffset = call.byteOffset
    /\ call.prev.littleEndian = call.littleEndian
    /\ ~call.littleEndian
    /\ call.byteOffset = 3
    /\ call.prev.value = [i \in 1..16 |-> i]
    /\ call.result = [i \in 1..16 |-> i]
    /\ data.bytes[1] = 255
    /\ data.bytes[4] = 16

(***************************************************************************)
(* Properties of one encodeEntityEditPacket call (SpecEncode).             *)
(***************************************************************************)
Encoded == call.op = "encodeEntityEditPacket"
\* The appender the design names for a property and the value it is given.
PropertyAppender(flag) ==
    CASE flag = PROP_LAST_EDITED_BY -> "appendUuidValue"
      [] flag = PROP_GRAB_GRABBABLE -> "appendBooleanValue"
      [] flag = PROP_COLOR -> "appendColorValue"
      [] flag = PROP_ANIMATION_FPS -> "appendFloat32Value"
PropertyValue(properties, flag) ==
    CASE flag = PROP_LAST_EDITED_BY -> properties.lastEditedBy
      [] flag = PROP_GRAB_GRABBABLE -> properties.grab.grabbable
      [] flag = PROP_COLOR -> properties.color
      [] flag = PROP_ANIMATION_FPS -> properties.animation.fps
Requested == call.requestedProperties
\* The properties whose appender returned a byte count.
Written == {f \in Requested : call.rets[f] > 0}
DidntFit == call.didntFitProperties
ValueValid(f) == ContractValid(PropertyAppender(f), PropertyValue(call.properties, f))
ValueSize(f) == ContractSize(PropertyAppender(f), PropertyValue(call.properties, f))
AllValid == \A f \in Requested : ValueValid(f)
\* The buffer from the write position the call found.
PacketRoom == data.byteLength - call.dataPosition
\* The flags of the flag block in the buffer.
FlagBlock ==
    decode([i \in 1..(data.byteLength - call.dataPosition - HEADER_BYTES) |->
               data.bytes[call.dataPosition + HEADER_BYTES + i]])
RECURSIVE BytesBefore(_, _)
\* The bytes the properties written before q take.
BytesBefore(q, flags) ==
    IF flags = {} THEN 0
    ELSE LET f == CHOOSE g \in flags : TRUE
         IN  (IF f < q THEN call.rets[f] ELSE 0) + BytesBefore(q, flags \ {f})
\* The room the appender of q found.
RoomAt(q) == PacketRoom - HEADER_BYTES - MAX_FLAGS_BYTES - BytesBefore(q, Written)

C8_NoneLeavesPosition ==
    (Encoded /\ call.appendState = NONE) =>
        /\ dataPosition = call.dataPosition
        /\ Requested \subseteq DidntFit

\* The 48-byte buffer: neither lastEditedBy nor color fits in the 2 bytes
\* after the flag block.
C8_Witness ==
    /\ Encoded
    /\ call.appendState = NONE
    /\ PacketRoom = 48
    /\ Requested = {PROP_LAST_EDITED_BY, PROP_COLOR}
    /\ call.properties.lastEditedBy = LastEditedByUuid
    /\ DidntFit = {PROP_LAST_EDITED_BY, PROP_COLOR}
    /\ call.dataPosition > 0
    /\ dataPosition = call.dataPosition

C10_LaterPropertyStillWritten ==
    Encoded =>
        \A p, q \in Requested :
            (/\ p < q
             /\ ValueValid(p) /\ call.rets[p] = 0
             /\ ValueValid(q) /\ ValueSize(q) <= RoomAt(q))
            => (q \in Written /\ q \in FlagBlock /\ q \notin DidntFit)

\* The 51-byte buffer: 5 bytes after the flag block, the 18-byte lastEditedBy
\* did not fit and the 3-byte color after it was written.
C10_Witness ==
    /\ Encoded
    /\ PacketRoom = 51
    /\ call.properties.lastEditedBy = LastEditedByUuid
    /\ Requested = {PROP_LAST_EDITED_BY, PROP_COLOR}
    /\ call.rets[PROP_LAST_EDITED_BY] = 0
    /\ call.rets[PROP_COLOR] = 3
    /\ PROP_COLOR \in FlagBlock
    /\ dataPosition = call.dataPosition + 43

(***************************************************************************)
(* WebRTC signaling channels and data channels: the channel objects, the   *)
(* events the browser delivers to them and the calls an application makes. *)
(***************************************************************************)
CONNECTING == "CONNECTING"
OPEN == "OPEN"
CLOSING == "CLOSING"
CLOSED == "CLOSED"

LOCALHOST_WEBSOCKET == "ws://127.0.0.1:40102"
INVALID_WEBSOCKET == "ws://0.0.0.0:0"
DomainServerNodeType == "DomainServer"

\* Send calls made on one data channel.
MaxSends == 1

\* The packet state, which no networking step touches.
packetVars == <<data, dataPosition, packetContext, call, ncalls, limit>>
PacketOff ==
    /\ data = NewDataView(0)
    /\ dataPosition = 0
    /\ packetContext = [propertiesToWrite |-> {}, propertiesWritten |-> {},
                        propertyCount |-> 0, appendState |-> COMPLETED]
    /\ call = NoCall
    /\ ncalls = 0
    /\ limit = 0

\* new WebRTCSignalingChannel(url): the WebSocket starts connecting.
WebRTCSignalingChannel(url) == [url |-> url, readyState |-> CONNECTING]

\* new WebRTCDataChannel(nodeType, signalingChannel): negotiation starts.
\* states is the sequence of values readyState has taken; sent and received
\* are the payloads accepted by send and handed to onmessage.
WebRTCDataChannel(nodeType, signalingChannel) ==
    [nodeType |-> nodeType, signalingChannel |-> signalingChannel,
     readyState |-> CONNECTING, states |-> <<CONNECTING>>,
     errors |-> 0, sends |-> 0, sent |-> << >>, received |-> << >>]

setReadyState(channel, readyState) ==
    [channel EXCEPT !.readyState = readyState, !.states = Append(@, readyState)]

\* The error callback: one more error event on the channel.
errorCallback(channel) == [channel EXCEPT !.errors = @ + 1]

\* Mutant of send: only a closed channel refuses the message.
send_UnlessClosed(channel, message) ==
    IF channel.readyState # CLOSED
    THEN [channel |-> [channel EXCEPT !.sends = @ + 1, !.sent = Append(@, message)],
          ret |-> TRUE, threw |-> FALSE]
    ELSE [channel |-> errorCallback([channel EXCEPT !.sends = @ + 1]),
          ret |-> FALSE, threw |-> FALSE]
\* send(message): hands the message to the open channel, otherwise reports
\* an error; returns whether the message was sent.
send(channel, message) ==
    IF channel.readyState = OPEN
    THEN [channel |-> [channel EXCEPT !.sends = @ + 1, !.sent = Append(@, message)],
          ret |-> TRUE, threw |-> FALSE]
    ELSE [channel |-> errorCallback([channel EXCEPT !.sends = @ + 1]),
          ret |-> FALSE, threw |-> FALSE]

\* Mutant of close: the channel is closed at once, without a closing phase.
close_SkipsClosing(channel) ==
    IF channel.readyState \in {CONNECTING, OPEN}
    THEN setReadyState(channel, CLOSED)
    ELSE channel
\* close(): starts closing a channel that is not closing or closed yet.
close(channel) ==
    IF channel.readyState \in {CONNECTING, OPEN}
    THEN setReadyState(channel, CLOSING)
    ELSE channel

\* The channel's handlers of the events of its RTCDataChannel and of its
\* signaling channel.
onopen(channel) == setReadyState(channel, OPEN)
onclose(channel) == setReadyState(channel, CLOSED)
\* Mutant of onerror: the channel is closed but no error event is emitted.
onerror_Silent(channel) == setReadyState(channel, CLOSED)
onerror(channel) == errorCallback(setReadyState(channel, CLOSED))
onmessage(channel, message) == [channel EXCEPT !.received = Append(@, message)]

\* Two signaling channels, each carrying the negotiation of the data
\* channel that is created over it; every channel sends its own message.
SignalingIds == {1, 2}
Urls == {LOCALHOST_WEBSOCKET, INVALID_WEBSOCKET}
EchoMessages == <<"echo:Hello", "echo:Goodbye">>

\* The data channels a payload arriving on a connection is handed to.
Recipients_AllChannels(channels, connection) == DOMAIN channels
Recipients(channels, connection) ==
    { c \in DOMAIN channels : channels[c].signalingChannel = connection }

NetFrame == UNCHANGED <<packetVars, nodeList, server>>

\* The WebSocket of a signaling channel opens.
SignalingOpen ==
    \E s \in SignalingIds :
        /\ signalingChannels[s].readyState = CONNECTING
        /\ signalingChannels[s].url = LOCALHOST_WEBSOCKET
        /\ signalingChannels' = [signalingChannels EXCEPT ![s].readyState = OPEN]
        /\ event' = NoEvent
        /\ UNCHANGED <<dataChannels, wire>>
        /\ NetFrame

\* The WebSocket of a signaling channel cannot be opened.
SignalingError ==
    \E s \in SignalingIds :
        /\ signalingChannels[s].readyState = CONNECTING
        /\ signalingChannels[s].url = INVALID_WEBSOCKET
        /\ signalingChannels' = [signalingChannels EXCEPT ![s].readyState = CLOSED]
        /\ event' = NoEvent
        /\ UNCHANGED <<dataChannels, wire>>
        /\ NetFrame

\* The application calls close() on a signaling channel.
SignalingClose ==
    \E s \in SignalingIds :
        /\ signalingChannels[s].readyState \in {CONNECTING, OPEN}
        /\ signalingChannels' = [signalingChannels EXCEPT ![s].readyState = CLOSING]
        /\ event' = NoEvent
        /\ UNCHANGED <<dataChannels, wire>>
        /\ NetFrame

\* The WebSocket of a signaling channel has closed.
SignalingClosed ==
    \E s \in SignalingIds :
        /\ signalingChannels[s].readyState = CLOSING
        /\ signalingChannels' = [signalingChannels EXCEPT ![s].readyState = CLOSED]
        /\ event' = NoEvent
        /\ UNCHANGED <<dataChannels, wire>>
        /\ NetFrame

\* The application creates the data channel of a signaling channel, in
\* whatever state that signaling channel is.
CreateDataChannel ==
    \E s \in SignalingIds :
        /\ s \notin DOMAIN dataChannels
        /\ dataChannels' = dataChannels @@ (s :> WebRTCDataChannel(DomainServerNodeType, s))
        /\ event' = NoEvent
        /\ UNCHANGED <<signalingChannels, wire>>
        /\ NetFrame

\* The negotiation over an open signaling channel completes.
DataChannelOpen ==
    \E c \in DOMAIN dataChannels :
        /\ dataChannels[c].readyState = CONNECTING
        /\ signalingChannels[dataChannels[c].signalingChannel].readyState = OPEN
        /\ dataChannels' = [dataChannels EXCEPT ![c] = onopen(@)]
        /\ event' = NoEvent
        /\ UNCHANGED <<signalingChannels, wire>>
        /\ NetFrame

\* The negotiation cannot complete: the signaling channel is closing or
\* closed.
DataChannelErrorOn(c) ==
    /\ c \in DOMAIN dataChannels
    /\ dataChannels[c].readyState = CONNECTING
    /\ signalingChannels[dataChannels[c].signalingChannel].readyState \in {CLOSING, CLOSED}
    /\ dataChannels' = [dataChannels EXCEPT ![c] = onerror(@)]
    /\ event' = NoEvent
    /\ UNCHANGED <<signalingChannels, wire>>
    /\ NetFrame

DataChannelError == \E c \in SignalingIds : DataChannelErrorOn(c)

\* The transport of an open data channel fails.
DataChannelLost ==
    \E c \in DOMAIN dataChannels :
        /\ dataChannels[c].readyState = OPEN
        /\ dataChannels' = [dataChannels EXCEPT ![c] = onerror(@)]
        /\ event' = NoEvent
        /\ UNCHANGED <<signalingChannels, wire>>
        /\ NetFrame

\* The application calls send() on a data channel, in whatever state it is.
DataChannelSend ==
    \E c \in DOMAIN dataChannels :
        LET channel == dataChannels[c]
            r == send(channel, EchoMessages[c])
        IN  /\ channel.sends < MaxSends
            /\ dataChannels' = [dataChannels EXCEPT ![c] = r.channel]
            /\ wire' = IF r.ret
                       THEN [wire EXCEPT !.toServer[channel.signalingChannel] =
                                             Append(@, EchoMessages[c])]
                       ELSE wire
            /\ event' = [op |-> "send", channel |-> c, readyState |-> channel.readyState,
                         errors |-> channel.errors, ret |-> r.ret, threw |-> r.threw]
            /\ UNCHANGED signalingChannels
            /\ NetFrame

\* The application calls close() on a data channel, in whatever state it is.
DataChannelClose ==
    \E c \in DOMAIN dataChannels :
        /\ dataChannels' = [dataChannels EXCEPT ![c] = close(@)]
        /\ event' = NoEvent
        /\ UNCHANGED <<signalingChannels, wire>>
        /\ NetFrame

\* A closing data channel has closed.
DataChannelClosedOn(c) ==
    /\ c \in DOMAIN dataChannels
    /\ dataChannels[c].readyState = CLOSING
    /\ dataChannels' = [dataChannels EXCEPT ![c] = onclose(@)]
    /\ event' = NoEvent
    /\ UNCHANGED <<signalingChannels, wire>>
    /\ NetFrame

DataChannelClosed == \E c \in SignalingIds : DataChannelClosedOn(c)

\* The server echoes a payload on the connection it arrived on.
ServerEcho ==
    \E s \in SignalingIds :
        /\ wire.toServer[s] # << >>
        /\ wire' = [wire EXCEPT !.toServer[s] = Tail(@),
                                !.toClient[s] = Append(@, Head(wire.toServer[s]))]
        /\ event' = NoEvent
        /\ UNCHANGED <<signalingChannels, dataChannels>>
        /\ NetFrame

\* A payload arrives from the server: the open data channels of its
\* connection get it.
DataChannelMessage ==
    \E s \in SignalingIds :
        /\ wire.toClient[s] # << >>
        /\ LET message == Head(wire.toClient[s])
               to == { c \in Recipients(dataChannels, s) : dataChannels[c].readyState = OPEN }
           IN  dataChannels' = [c \in DOMAIN dataChannels |->
                                   IF c \in to THEN onmessage(dataChannels[c], message)
                                   ELSE dataChannels[c]]
        /\ wire' = [wire EXCEPT !.toClient[s] = Tail(@)]
        /\ event' = NoEvent
        /\ UNCHANGED signalingChannels
        /\ NetFrame

DataChannelNext ==
    \/ SignalingOpen \/ SignalingError \/ SignalingClose \/ SignalingClosed
    \/ CreateDataChannel \/ DataChannelOpen \/ DataChannelError \/ DataChannelLost
    \/ DataChannelSend \/ DataChannelClose \/ DataChannelClosed
    \/ ServerEcho \/ DataChannelMessage

\* Two new signaling channels, each to a reachable or an unreachable URL.
DataChannelInit ==
    /\ PacketOff
    /\ \E url1 \in Urls, url2 \in Urls :
           signalingChannels = <<WebRTCSignalingChannel(url1), WebRTCSignalingChannel(url2)>>
    /\ dataChannels = << >>
    /\ wire = [toServer |-> << << >>, << >> >>, toClient |-> << << >>, << >> >>]
    /\ event = NoEvent
    /\ nodeList = << >>
    /\ server = << >>

SpecDataChannel == DataChannelInit /\ [][DataChannelNext]_vars

\* The event loop delivers the pending error and close events of every data
\* channel.
FairSpecDataChannel ==
    /\ SpecDataChannel
    /\ \A c \in SignalingIds :
           WF_vars(DataChannelErrorOn(c)) /\ WF_vars(DataChannelClosedOn(c))

(***************************************************************************)
(* Data channel claims.                                                    *)
(***************************************************************************)
\* The changes of readyState a data channel has made.
Steps(channel) ==
    { <<channel.states[i], channel.states[i + 1]>> : i \in 1..(Len(channel.states) - 1) }
LifecycleSteps == {<<CONNECTING, OPEN>>, <<OPEN, CLOSING>>, <<CLOSING, CLOSED>>}
\* A channel that was opened, got an echo, was closed and met no error.
NormalCycle(channel) ==
    /\ channel.received # << >>
    /\ channel.readyState = CLOSED
    /\ channel.errors = 0

C12_SendOnlyWhenOpen ==
    event.op = "send" =>
        LET channel == dataChannels[event.channel]
        IN  /\ event.ret <=> event.readyState = OPEN
            /\ event.readyState = CLOSED =>
                   /\ ~event.ret
                   /\ ~event.threw
                   /\ channel.errors = event.errors + 1
                   /\ channel.readyState = CLOSED

\* The closed-channel test: send is called after the channel was opened,
\* closed and has closed.
C12_Witness ==
    /\ event.op = "send"
    /\ event.readyState = CLOSED
    /\ ~event.ret
    /\ dataChannels[event.channel].states = <<CONNECTING, OPEN, CLOSING, CLOSED>>
    /\ dataChannels[event.channel].errors = 1

\* Data channel c is still CONNECTING and its signaling channel has failed to
\* open or has been closed.
ConnectingWithoutSignaling(c) ==
    /\ c \in DOMAIN dataChannels
    /\ dataChannels[c].readyState = CONNECTING
    /\ signalingChannels[dataChannels[c].signalingChannel].readyState \in {CLOSING, CLOSED}
\* Data channel c went from CONNECTING straight to CLOSED with an error event.
FailedWhileConnecting(c) ==
    /\ c \in DOMAIN dataChannels
    /\ dataChannels[c].states = <<CONNECTING, CLOSED>>
    /\ dataChannels[c].errors > 0
\* Data channel c was closed by close() before it opened.
ClosedWhileConnecting(c) ==
    /\ c \in DOMAIN dataChannels
    /\ dataChannels[c].states = <<CONNECTING, CLOSING, CLOSED>>
\* Data channel c has never been OPEN and has sent nothing.
NeverOpenedNorSent(c) ==
    /\ c \in DOMAIN dataChannels
    /\ \A i \in 1..Len(dataChannels[c].states) : dataChannels[c].states[i] # OPEN
    /\ dataChannels[c].sent = << >>

C14_ChannelsKeptSeparate ==
    \A c \in DOMAIN dataChannels :
        LET channel == dataChannels[c]
        IN  /\ Len(channel.received) <= Len(channel.sent)
            /\ \A i \in 1..Len(channel.received) : channel.received[i] = channel.sent[i]
            /\ \A d \in DOMAIN dataChannels \ {c} :
                   \A i \in 1..Len(channel.received) :
                       \A k \in 1..Len(dataChannels[d].sent) :
                           channel.received[i] # dataChannels[d].sent[k]

\* The test of the two channels: each has sent its payload and got it back.
C14_Witness ==
    /\ DOMAIN dataChannels = {1, 2}
    /\ dataChannels[1].signalingChannel # dataChannels[2].signalingChannel
    /\ dataChannels[1].received = <<"echo:Hello">>
    /\ dataChannels[2].received = <<"echo:Goodbye">>

(***************************************************************************)
(* The domain connection: DomainServer, NodeList, DomainHandler and the    *)
(* Socket with its signaling channel and data channels.                    *)
(***************************************************************************)
UnconnectedState == "UnconnectedState"
ConnectingState == "ConnectingState"
ConnectedState == "ConnectedState"

DISCONNECTED == "DISCONNECTED"
CONNECTED == "CONNECTED"
REFUSED == "REFUSED"
UNAVAILABLE == "UNAVAILABLE"

DomainConnectRequest == "DomainConnectRequest"
DomainListRequest == "DomainListRequest"
DomainDisconnectRequest == "DomainDisconnectRequest"
NoPacket == "none"

\* The UUIDs of the assignment clients of the domain and the node type of
\* each; the domain server itself has the null UUID.
DomainServerUuid == "00000000-0000-0000-0000-000000000000"
NodeUuids == {"avatar-mixer-uuid", "audio-mixer-uuid"}
NodeTypeOf ==
    [uuid \in NodeUuids \cup {DomainServerUuid} |->
        IF uuid = "avatar-mixer-uuid" THEN "AvatarMixer"
        ELSE IF uuid = "audio-mixer-uuid" THEN "AudioMixer"
        ELSE DomainServerNodeType]
\* The node lists a DomainList packet can carry.
DomainLists ==
    {{}, {"avatar-mixer-uuid"}, {"audio-mixer-uuid"}, {"avatar-mixer-uuid", "audio-mixer-uuid"}}

\* Transport interruptions in one session.
MaxInterruptions == 1

\* Socket.state(nodeType): the state of the socket's data channel to a node.
socketState(socket, nodeType, uuid) ==
    LET ids == { id \in DOMAIN socket.dataChannels :
                    /\ socket.dataChannels[id].nodeType = nodeType
                    /\ socket.dataChannels[id].uuid = uuid }
    IN  IF ids = {} THEN UnconnectedState
        ELSE IF \E id \in ids : socket.dataChannels[id].readyState = OPEN
             THEN ConnectedState
             ELSE ConnectingState

\* The ID the socket gives its next data channel.
NewDataChannelId(channels) ==
    CHOOSE id \in 1..(Cardinality(DOMAIN channels) + 1) : id \notin DOMAIN channels

\* Socket.connectToHost(url, nodeType): opens the signaling channel if there
\* is none and starts a data channel to the node; returns at once.
connectToHost(socket, nodeType, uuid) ==
    [socket EXCEPT
        !.signaling = IF @ \in {CONNECTING, OPEN} THEN @ ELSE CONNECTING,
        !.dataChannels = @ @@ (NewDataChannelId(@) :>
                                  [nodeType |-> nodeType, uuid |-> uuid,
                                   readyState |-> CONNECTING])]

\* Socket.cleanupConnection: closes the data channels to the nodes and frees
\* their entries; the channels are closing until their close events arrive.
cleanupConnection(socket, uuids) ==
    LET keep == { id \in DOMAIN socket.dataChannels : socket.dataChannels[id].uuid \notin uuids }
        gone == { socket.dataChannels[id].uuid : id \in DOMAIN socket.dataChannels \ keep }
    IN  [socket EXCEPT
            !.dataChannels = [id \in keep |-> socket.dataChannels[id]],
            !.closing = @ \cup gone]

\* Socket.clearConnections / WebRTCSocket.abort: closes every data channel
\* and the signaling channel and frees the map.
clearConnections(socket) ==
    [signaling |-> "none",
     dataChannels |-> << >>,
     closing |-> socket.closing
                   \cup { socket.dataChannels[id].uuid : id \in DOMAIN socket.dataChannels }
                   \cup (IF socket.signaling \in {CONNECTING, OPEN} THEN {"signaling"} ELSE {})]

\* DomainServer.#setState: onStateChanged is called when the state changes;
\* states is the sequence of states of the current session.
setState(nl, state) ==
    IF nl.state = state THEN nl
    ELSE [nl EXCEPT !.state = state, !.states = Append(@, state)]

\* new DomainServer(): disconnected, nothing connected, empty roster.
NewNodeList ==
    [state |-> DISCONNECTED, states |-> <<DISCONNECTED>>, timer |-> FALSE,
     isConnected |-> FALSE, nodeHash |-> << >>,
     socket |-> [signaling |-> "none", dataChannels |-> << >>, closing |-> {}],
     interruptions |-> 0]

\* AvatarMixer.state, AudioMixer.state: UNAVAILABLE while the node is not in
\* the roster, DISCONNECTED while it is not active, CONNECTED once it is.
assignmentClientState(nl, uuid) ==
    IF uuid \notin DOMAIN nl.nodeHash THEN UNAVAILABLE
    ELSE IF nl.nodeHash[uuid].active THEN CONNECTED
    ELSE DISCONNECTED

\* Mutant of connect: the timer is started but the state is left alone.
connect_StaysDisconnected(nl) ==
    [nl EXCEPT !.states = <<nl.state>>,
               !.timer = TRUE, !.interruptions = 0]

\* DomainServer.connect(location): sets the domain URL and starts the
\* check-in timer.
connect(nl) ==
    [nl EXCEPT !.state = CONNECTING, !.states = <<nl.state, CONNECTING>>,
               !.timer = TRUE, !.interruptions = 0]

\* Mutant of sendDomainServerCheckIn: a connect request is sent as soon as the
\* data channel exists, open or not.
sendDomainServerCheckIn_SendsWhileConnecting(nl) ==
    LET domainServerSocketState ==
            socketState(nl.socket, DomainServerNodeType, DomainServerUuid)
    IN  IF domainServerSocketState = UnconnectedState
        THEN [nodeList |-> [nl EXCEPT !.socket = connectToHost(@, DomainServerNodeType,
                                                               DomainServerUuid)],
              packet |-> NoPacket, connectToHost |-> TRUE]
        ELSE [nodeList |-> nl,
              packet |-> IF nl.isConnected THEN DomainListRequest ELSE DomainConnectRequest,
              connectToHost |-> FALSE]

\* NodeList.sendDomainServerCheckIn(): what the check-in timer runs every
\* second.  Returns the node list, the packet sent and whether connectToHost
\* was started.
sendDomainServerCheckIn(nl) ==
    LET domainServerSocketState ==
            socketState(nl.socket, DomainServerNodeType, DomainServerUuid)
    IN  IF domainServerSocketState # ConnectedState
        THEN IF domainServerSocketState = UnconnectedState
             THEN [nodeList |-> [nl EXCEPT !.socket = connectToHost(@, DomainServerNodeType,
                                                                    DomainServerUuid)],
                   packet |-> NoPacket, connectToHost |-> TRUE]
             ELSE [nodeList |-> nl, packet |-> NoPacket, connectToHost |-> FALSE]
        ELSE [nodeList |-> nl,
              packet |-> IF nl.isConnected THEN DomainListRequest ELSE DomainConnectRequest,
              connectToHost |-> FALSE]

\* Mutant of addNewNode: the node is added as an active node.
addNewNode_Active(uuid) == [nodeType |-> NodeTypeOf[uuid], active |-> TRUE]
\* LimitedNodeList.addNewNode: the node enters the roster with no active
\* socket.
addNewNode(uuid) == [nodeType |-> NodeTypeOf[uuid], active |-> FALSE]

\* Opens a data channel to each of the nodes.
RECURSIVE openWebRTCConnections(_, _)
openWebRTCConnections(socket, uuids) ==
    IF uuids = {} THEN socket
    ELSE LET uuid == CHOOSE u \in uuids : TRUE
         IN  openWebRTCConnections(connectToHost(socket, NodeTypeOf[uuid], uuid),
                                   uuids \ {uuid})

\* Mutant of processDomainList: a data channel is opened to every node of the
\* list, known or not.
processDomainList_OpensForEveryNode(nl, list) ==
    LET known == DOMAIN nl.nodeHash
        connected == setState([nl EXCEPT !.isConnected = TRUE], CONNECTED)
    IN  [connected EXCEPT
            !.nodeHash = [uuid \in list |->
                             IF uuid \in known THEN nl.nodeHash[uuid]
                             ELSE addNewNode(uuid)],
            !.socket = openWebRTCConnections(cleanupConnection(@, known \ list), list)]

\* Mutant of processDomainList: nodes missing from the list are left in the
\* roster with their data channels.
processDomainList_KeepsMissingNodes(nl, list) ==
    LET known == DOMAIN nl.nodeHash
        connected == setState([nl EXCEPT !.isConnected = TRUE], CONNECTED)
    IN  [connected EXCEPT
            !.nodeHash = [uuid \in list \cup known |->
                             IF uuid \in known THEN nl.nodeHash[uuid]
                             ELSE addNewNode(uuid)],
            !.socket = openWebRTCConnections(@, list \ known)]

\* NodeList.processDomainList(message): the domain is connected; unknown
\* nodes are added and a data channel is opened to each, known nodes stay,
\* nodes missing from the list are killed.
processDomainList(nl, list) ==
    LET known == DOMAIN nl.nodeHash
        connected == setState([nl EXCEPT !.isConnected = TRUE], CONNECTED)
    IN  [connected EXCEPT
            !.nodeHash = [uuid \in list |->
                             IF uuid \in known THEN nl.nodeHash[uuid]
                             ELSE addNewNode(uuid)],
            !.socket = openWebRTCConnections(cleanupConnection(@, known \ list),
                                             list \ known)]

\* The signals emitted while a DomainList is processed: connectedToDomain by
\* DomainHandler.setIsConnected(true) when the flag changes, nodeAdded by
\* addNewNode for each node added, nodeKilled by handleNodeKill for each node
\* killed.
processDomainListSignals(nl, list) ==
    [connectedToDomain |-> ~nl.isConnected,
     nodeAdded |-> list \ DOMAIN nl.nodeHash,
     nodeKilled |-> DOMAIN nl.nodeHash \ list]

\* Mutant of processDomainConnectionDenied: the denial is ignored.
processDomainConnectionDenied_Ignored(nl) == nl

\* The DomainConnectionDenied handler.
processDomainConnectionDenied(nl) == setState(nl, REFUSED)

\* NodeList.processDomainServerRemovedNode: LimitedNodeList.killNodeWithUUID.
killNodeWithUUID(nl, uuid) ==
    [nl EXCEPT !.nodeHash = [u \in DOMAIN nl.nodeHash \ {uuid} |-> nl.nodeHash[u]],
               !.socket = cleanupConnection(@, {uuid})]

\* Mutant of reset: the socket's connections are cleared, the roster is kept.
reset_KeepsRoster(nl) == [nl EXCEPT !.socket = clearConnections(@)]

\* NodeList.reset: the roster is erased and the socket's connections cleared.
reset(nl) == [nl EXCEPT !.nodeHash = << >>, !.socket = clearConnections(@)]

\* Mutant of disconnect: the check-in timer is left running.
disconnect_KeepsTimer(nl) ==
    setState(reset([nl EXCEPT !.isConnected = FALSE]), DISCONNECTED)

\* DomainServer.disconnect(): stops the check-in timer; DomainHandler
\* disconnect sends the disconnect packet if the domain is connected, sets
\* isConnected to false and resets the node list.
disconnect(nl) ==
    setState(reset([nl EXCEPT !.timer = FALSE, !.isConnected = FALSE]), DISCONNECTED)

\* The socket's data channel with this ID opens; an assignment client's
\* socket is activated with it.
dataChannelOpened(nl, id) ==
    LET uuid == nl.socket.dataChannels[id].uuid
    IN  [nl EXCEPT
            !.socket.dataChannels[id].readyState = OPEN,
            !.nodeHash = [u \in DOMAIN nl.nodeHash |->
                             IF u = uuid THEN [nl.nodeHash[u] EXCEPT !.active = TRUE]
                             ELSE nl.nodeHash[u]]]

\* Mutant of transportClosed: the dead data channels stay in the socket's map.
transportClosed_KeepsChannels(nl) ==
    LET lost == [nl EXCEPT !.socket.signaling = "none",
                           !.socket.dataChannels =
                               [id \in DOMAIN @ |-> [@[id] EXCEPT !.readyState = CLOSED]],
                           !.nodeHash = << >>,
                           !.isConnected = FALSE,
                           !.interruptions = @ + 1]
    IN  IF nl.isConnected THEN setState(lost, DISCONNECTED) ELSE lost

\* The network is interrupted: the signaling WebSocket and the data
\* channels are closed under the client; a connected domain is disconnected
\* and the node list reset, while the check-in timer keeps running.
transportClosed(nl) ==
    LET lost == [nl EXCEPT !.socket = [signaling |-> "none", dataChannels |-> << >>,
                                       closing |-> nl.socket.closing],
                           !.nodeHash = << >>,
                           !.isConnected = FALSE,
                           !.interruptions = @ + 1]
    IN  IF nl.isConnected THEN setState(lost, DISCONNECTED) ELSE lost

DomainFrame == UNCHANGED <<packetVars, signalingChannels, dataChannels, wire>>

\* The application calls DomainServer.connect().
Connect ==
    /\ ~nodeList.timer
    /\ nodeList' = connect(nodeList)
    /\ event' = NoEvent
    /\ UNCHANGED server
    /\ DomainFrame

\* The application calls DomainServer.disconnect(), in whatever state.
Disconnect ==
    /\ nodeList' = disconnect(nodeList)
    /\ event' = [op |-> "disconnect", timer |-> nodeList.timer,
                 active |-> { uuid \in DOMAIN nodeList.nodeHash :
                                 nodeList.nodeHash[uuid].active },
                 packet |-> IF nodeList.isConnected THEN DomainDisconnectRequest
                            ELSE NoPacket]
    /\ server' = [server EXCEPT !.pending = NoPacket]
    /\ DomainFrame

\* The check-in timer fires.
CheckIn ==
    /\ nodeList.timer
    /\ LET r == sendDomainServerCheckIn(nodeList)
       IN  /\ nodeList' = r.nodeList
           /\ event' = [op |-> "checkin",
                        socketState |-> socketState(nodeList.socket, DomainServerNodeType,
                                                    DomainServerUuid),
                        isConnected |-> nodeList.isConnected,
                        state |-> nodeList.state,
                        packet |-> r.packet,
                        connectToHost |-> r.connectToHost]
           /\ server' = IF r.packet = NoPacket THEN server
                        ELSE [server EXCEPT !.pending = r.packet]
    /\ DomainFrame

\* The socket's signaling channel opens.
SocketSignalingOpen ==
    /\ nodeList.socket.signaling = CONNECTING
    /\ nodeList' = [nodeList EXCEPT !.socket.signaling = OPEN]
    /\ event' = NoEvent
    /\ UNCHANGED server
    /\ DomainFrame

\* A data channel of the socket opens.
SocketDataChannelOpen ==
    /\ nodeList.socket.signaling = OPEN
    /\ \E id \in DOMAIN nodeList.socket.dataChannels :
           /\ nodeList.socket.dataChannels[id].readyState = CONNECTING
           /\ nodeList' = dataChannelOpened(nodeList, id)
           /\ event' = NoEvent
    /\ UNCHANGED server
    /\ DomainFrame

\* The close event of a channel that the socket has closed arrives.
SocketChannelClosed ==
    /\ \E c \in nodeList.socket.closing :
           /\ nodeList' = [nodeList EXCEPT !.socket.closing = @ \ {c}]
           /\ event' = NoEvent
    /\ UNCHANGED server
    /\ DomainFrame

\* The domain server answers the request it holds: a connect request with
\* DomainList or, if it does not accept the client, DomainConnectionDenied;
\* a list request with DomainList.
ServerReply ==
    /\ server.pending # NoPacket
    /\ socketState(nodeList.socket, DomainServerNodeType, DomainServerUuid) = ConnectedState
    /\ IF server.pending = DomainConnectRequest /\ ~server.accepts
       THEN /\ nodeList' = processDomainConnectionDenied(nodeList)
            /\ event' = [op |-> "DomainConnectionDenied", state |-> nodeList.state]
       ELSE \E list \in DomainLists :
                /\ nodeList' = processDomainList(nodeList, list)
                /\ event' = [op |-> "DomainList", state |-> nodeList.state,
                             list |-> list,
                             signals |-> processDomainListSignals(nodeList, list)]
    /\ server' = [server EXCEPT !.pending = NoPacket]
    /\ DomainFrame

\* The domain server reports that a node has gone.
DomainServerRemovedNode ==
    /\ \E uuid \in NodeUuids :
           /\ uuid \in DOMAIN nodeList.nodeHash
           /\ nodeList' = killNodeWithUUID(nodeList, uuid)
           /\ event' = NoEvent
    /\ UNCHANGED server
    /\ DomainFrame

\* The network connection is interrupted.
TransportInterrupted ==
    /\ nodeList.socket.signaling \in {CONNECTING, OPEN}
    /\ nodeList.interruptions < MaxInterruptions
    /\ nodeList' = transportClosed(nodeList)
    /\ event' = NoEvent
    /\ server' = [server EXCEPT !.pending = NoPacket]
    /\ DomainFrame

\* The domain's settings are changed: anonymous connections are allowed or
\* no longer allowed.
ChangePolicy ==
    /\ server' = [server EXCEPT !.accepts = ~@]
    /\ event' = NoEvent
    /\ UNCHANGED nodeList
    /\ DomainFrame

DomainNext ==
    \/ Connect \/ Disconnect \/ CheckIn
    \/ SocketSignalingOpen \/ SocketDataChannelOpen \/ SocketChannelClosed
    \/ ServerReply \/ DomainServerRemovedNode \/ TransportInterrupted \/ ChangePolicy

DomainInit ==
    /\ PacketOff
    /\ signalingChannels = << >>
    /\ dataChannels = << >>
    /\ wire = << >>
    /\ event = NoEvent
    /\ nodeList = NewNodeList
    /\ \E accepts \in BOOLEAN : server = [accepts |-> accepts, pending |-> NoPacket]

SpecDomain == DomainInit /\ [][DomainNext]_vars

\* The check-in timer fires every second and the events of the socket and
\* the answers of the server are delivered.
FairSpecDomain ==
    /\ SpecDomain
    /\ WF_vars(CheckIn)
    /\ WF_vars(SocketSignalingOpen)
    /\ WF_vars(SocketDataChannelOpen)
    /\ WF_vars(ServerReply)

(***************************************************************************)
(* Domain connection claims.                                               *)
(***************************************************************************)
DomainServerSocketState(nl) == socketState(nl.socket, DomainServerNodeType, DomainServerUuid)

\* C15: a check-in tick does exactly one of four things, by the state of the
\* socket to the domain server: Unconnected, it starts connectToHost and
\* sends no packet; Connecting, it does nothing; Connected and not joined,
\* it sends DomainConnectRequest; Connected and joined, it sends
\* DomainListRequest.  So no check-in packet is sent while the socket is not
\* Connected and connectToHost is started only from Unconnected.
C15_CheckInDoesOneThing ==
    [][event'.op = "checkin" =>
          LET before == DomainServerSocketState(nodeList)
              packet == event'.packet
          IN  /\ before = UnconnectedState =>
                     /\ event'.connectToHost
                     /\ DomainServerSocketState(nodeList') = ConnectingState
                     /\ packet = NoPacket /\ server' = server
              /\ before = ConnectingState =>
                     /\ nodeList' = nodeList
                     /\ packet = NoPacket /\ server' = server
              /\ before = ConnectedState /\ ~nodeList.isConnected =>
                     /\ nodeList' = nodeList
                     /\ packet = DomainConnectRequest /\ server'.pending = packet
              /\ before = ConnectedState /\ nodeList.isConnected =>
                     /\ nodeList' = nodeList
                     /\ packet = DomainListRequest /\ server'.pending = packet
              /\ packet # NoPacket => before = ConnectedState
              /\ (event'.connectToHost \/ nodeList'.socket # nodeList.socket)
                     => before = UnconnectedState
      ]_vars

\* A tick of a joined client has sent DomainListRequest.
C15_Witness ==
    /\ event.op = "checkin"
    /\ event.socketState = ConnectedState
    /\ event.isConnected
    /\ event.packet = DomainListRequest
    /\ server.pending = DomainListRequest

C17_OneDataChannelPerNode ==
    \A id1 \in DOMAIN nodeList.socket.dataChannels :
        \A id2 \in DOMAIN nodeList.socket.dataChannels :
            (/\ nodeList.socket.dataChannels[id1].nodeType = nodeList.socket.dataChannels[id2].nodeType
             /\ nodeList.socket.dataChannels[id1].uuid = nodeList.socket.dataChannels[id2].uuid)
                => id1 = id2

\* A DomainList has been processed that names both assignment clients again
\* while their former data channels are still closing.
C17_Witness ==
    /\ event.op = "DomainList"
    /\ Cardinality(DOMAIN nodeList.socket.dataChannels) = 3
    /\ NodeUuids \subseteq nodeList.socket.closing

\* The number of times the state was entered in the session.
Entered(h, state) == Cardinality({ i \in 1..Len(h) : h[i] = state })
StatePairs(h) == { <<h[i], h[i + 1]>> : i \in 1..(Len(h) - 1) }

C19_AssignmentClientStates ==
    /\ \A uuid \in NodeUuids : assignmentClientState(nodeList, uuid) = UNAVAILABLE
    /\ [][\A uuid \in NodeUuids :
              /\ (/\ assignmentClientState(nodeList', uuid) = CONNECTED
                  /\ assignmentClientState(nodeList, uuid) # CONNECTED)
                     => assignmentClientState(nodeList, uuid) = DISCONNECTED
              /\ (/\ assignmentClientState(nodeList', uuid) # UNAVAILABLE
                  /\ assignmentClientState(nodeList, uuid) = UNAVAILABLE)
                     => assignmentClientState(nodeList', uuid) = DISCONNECTED
              /\ event'.op = "disconnect"
                     => assignmentClientState(nodeList', uuid) = UNAVAILABLE
         ]_vars

\* disconnect() was called while the avatar mixer was CONNECTED, and it is
\* UNAVAILABLE again.
C19_Witness ==
    /\ event.op = "disconnect"
    /\ "avatar-mixer-uuid" \in event.active
    /\ assignmentClientState(nodeList, "avatar-mixer-uuid") = UNAVAILABLE

ConnectionLost == nodeList.timer /\ nodeList.state = DISCONNECTED

\* The application has called disconnect(), or the server has denied the
\* client's new connect request.
RecoveryCalledOff == ~nodeList.timer \/ nodeList.state = REFUSED

C22_DisconnectIdempotent ==
    /\ disconnect(disconnect(nodeList)) = disconnect(nodeList)
    /\ [][/\ (event'.op = "disconnect" /\ ~nodeList.timer) => nodeList' = nodeList
          /\ event'.op = "disconnect" =>
                 /\ ~nodeList'.timer
                 /\ ~nodeList'.isConnected
                 /\ nodeList'.nodeHash = << >>
                 /\ nodeList'.socket.dataChannels = << >>
                 /\ nodeList'.socket.signaling = "none"
          /\ event'.op = "checkin" => nodeList.timer
          /\ (~nodeList.timer /\ nodeList'.timer) => nodeList' = connect(nodeList)
         ]_vars

\* disconnect() has been called on a client that an earlier disconnect()
\* had taken out of a connected session with an assignment client, while
\* the channels closed by the first call were still closing.
C22_Witness ==
    /\ event.op = "disconnect"
    /\ ~event.timer
    /\ event.packet = NoPacket
    /\ nodeList.states = <<DISCONNECTED, CONNECTING, CONNECTED, DISCONNECTED>>
    /\ "signaling" \in nodeList.socket.closing
    /\ "avatar-mixer-uuid" \in nodeList.socket.closing

\* The socket's data channels to a node.
ChannelsTo(socket, uuid) ==
    { id \in DOMAIN socket.dataChannels : socket.dataChannels[id].uuid = uuid }

\* C23: when a DomainList has been processed the roster's UUIDs are exactly
\* those of the list; every node of the list that was unknown is in the
\* roster, not yet active, with nodeAdded emitted and one new data channel
\* connecting to it; every node that was known and is missing from the list
\* is out of the roster, its data channel is out of the socket's map and is
\* closing, and nodeKilled was emitted for it; a known node of the list
\* keeps its entry and its data channel; the DomainHandler is connected, and
\* connectedToDomain was emitted exactly if it was not connected before.
C23_DomainListProcessed ==
    [][event'.op = "DomainList" =>
          LET known == DOMAIN nodeList.nodeHash
              list == event'.list
          IN  /\ DOMAIN nodeList'.nodeHash = list
              /\ \A uuid \in list \ known :
                     /\ nodeList'.nodeHash[uuid] = [nodeType |-> NodeTypeOf[uuid], active |-> FALSE]
                     /\ uuid \in event'.signals.nodeAdded
                     /\ ChannelsTo(nodeList.socket, uuid) = {}
                     /\ \E id \in DOMAIN nodeList'.socket.dataChannels :
                            /\ ChannelsTo(nodeList'.socket, uuid) = {id}
                            /\ nodeList'.socket.dataChannels[id] =
                                   [nodeType |-> NodeTypeOf[uuid], uuid |-> uuid,
                                    readyState |-> CONNECTING]
              /\ \A uuid \in known \ list :
                     /\ ChannelsTo(nodeList.socket, uuid) # {}
                     /\ ChannelsTo(nodeList'.socket, uuid) = {}
                     /\ uuid \in nodeList'.socket.closing
                     /\ uuid \in event'.signals.nodeKilled
              /\ \A uuid \in known \cap list :
                     /\ nodeList'.nodeHash[uuid] = nodeList.nodeHash[uuid]
                     /\ \A id \in ChannelsTo(nodeList.socket, uuid) :
                            /\ id \in DOMAIN nodeList'.socket.dataChannels
                            /\ nodeList'.socket.dataChannels[id] = nodeList.socket.dataChannels[id]
                     /\ ChannelsTo(nodeList'.socket, uuid) = ChannelsTo(nodeList.socket, uuid)
              /\ event'.signals.nodeAdded = list \ known
              /\ event'.signals.nodeKilled = known \ list
              /\ nodeList'.isConnected
              /\ nodeList'.state = CONNECTED
              /\ event'.signals.connectedToDomain <=> ~nodeList.isConnected
              /\ event'.signals.connectedToDomain <=> event'.state # CONNECTED
      ]_vars

\* A DomainList received by the connected client has named the audio mixer,
\* which was unknown, and not the avatar mixer, which was known.
C23_Witness ==
    /\ event.op = "DomainList"
    /\ event.state = CONNECTED
    /\ event.list = {"audio-mixer-uuid"}
    /\ event.signals = [connectedToDomain |-> FALSE,
                        nodeAdded |-> {"audio-mixer-uuid"},
                        nodeKilled |-> {"avatar-mixer-uuid"}]
    /\ "avatar-mixer-uuid" \in nodeList.socket.closing
    /\ Cardinality(DOMAIN nodeList.socket.dataChannels) = 2

(***************************************************************************)
(* Encodings of the single appenders (SpecAppend).                         *)
(***************************************************************************)
\* The bytes of the view from offset first to offset last.
BytesAt(first, last) == [i \in 1..(last - first + 1) |-> data.bytes[first + i]]
\* The 16 bytes of a UUID value, most significant byte first.
UuidBytes(u) == [i \in 1..16 |-> IF 17 - i <= Len(u) THEN u[17 - i] ELSE 0]

\* C24: appendUuidValue writes a null UUID as exactly the 2 bytes 00 00 and
\* a non-null UUID as exactly 18 bytes, 10 00 followed by the 16 bytes of the
\* value, most significant byte first; a non-null UUID is written only when
\* all 18 bytes fit: with less room nothing is written and 0 is returned.
C24_UuidEncoding ==
    (call.op = "appendUuidValue" /\ call.value.t = "Uuid") =>
        LET p == call.dataPosition
        IN  IF call.value.u = << >>
            THEN IF p + 2 <= data.byteLength
                 THEN /\ call.ret = 2
                      /\ data.wr = p..(p + 1)
                      /\ BytesAt(p, p + 1) = <<0, 0>>
                 ELSE call.ret = 0 /\ data.wr = {} /\ BytesUnchanged
            ELSE IF p + 18 <= data.byteLength
                 THEN /\ call.ret = 18
                      /\ data.wr = p..(p + 17)
                      /\ BytesAt(p, p + 1) = <<16, 0>>
                      /\ BytesAt(p + 2, p + 17) = UuidBytes(call.value.u)
                 ELSE call.ret = 0 /\ data.wr = {} /\ BytesUnchanged

\* A UUID with leading zero bytes has been written at a non-zero offset.
C24_Witness ==
    /\ call.op = "appendUuidValue"
    /\ call.value = SmallUuid
    /\ call.dataPosition = 1
    /\ call.ret = 18
    /\ BytesAt(1, 18) = <<16, 0, 0, 0, 0, 0, 0, 0, 0, 0, 0, 0, 0, 0, 0, 0, 1, 2>>

\* C25: a call that writes returns the serialised size of its type and
\* value (bool 1, u8 1, u16 2, u32 4, u64 8, f32 4, color 3, vec2 8, vec3 12,
\* packed quat 8, rect 16, AACube 16, string 2 + UTF-8 length, ArrayBuffer
\* 2 + length, quat array 2 + 8n, vec3 array 2 + 12n, UUID array 2 + 16n),
\* and the bytes written are exactly that many consecutive bytes from the
\* offset.
C25_ReturnsSerializedSize ==
    (Called /\ call.ret > 0) =>
        /\ call.ret = CallSize
        /\ data.wr = call.dataPosition..(call.dataPosition + call.ret - 1)
        /\ dataPosition = call.dataPosition + CallSize

\* An array of two quaternions has been written at a non-zero offset.
C25_Witness ==
    /\ call.op = "appendQuatArray"
    /\ Len(call.value.elems) = 2
    /\ call.dataPosition = 1
    /\ call.ret = 18
    /\ data.wr = 1..18

(***************************************************************************)
(* The array appenders on arrays at the limit of the u16 length field.     *)
(***************************************************************************)
\* The longest array an appender accepts, and the shortest it rejects.
ArrayLengths == {65535, 65536}
\* Buffer lengths: room for a length field only, and 2 + ceil(65535 / 8) =
\* 8194 bytes, the size of the longest boolean array, and one byte more.
LongBufferLengths == {2, 8194, 8195}
CompletedContexts ==
    { [propertiesToWrite |-> {PROP_COLOR}, propertiesWritten |-> {},
       propertyCount |-> 0, appendState |-> COMPLETED],
      [propertiesToWrite |-> {PROP_COLOR}, propertiesWritten |-> {PROP_LAST_EDITED_BY},
       propertyCount |-> 1, appendState |-> COMPLETED] }

\* One array appender call; of the array only the length is recorded.
DoArrayCall(op, flag, length, r) ==
    /\ ncalls < limit
    /\ data' = r.data
    /\ packetContext' = r.packetContext
    /\ dataPosition' = dataPosition + r.ret
    /\ call' = [op |-> op, dataPosition |-> dataPosition, flag |-> flag, length |-> length,
                ret |-> r.ret, threw |-> r.threw,
                preBytes |-> data.bytes, preContext |-> packetContext]
    /\ ncalls' = ncalls + 1
    /\ UNCHANGED limit
    /\ UNCHANGED netVars

AppendLongBooleanArray ==
    \E flag \in Flags, length \in ArrayLengths :
        LET true == Bool(TRUE)
            false == Bool(FALSE)
            value == Array(SubSeq([i \in 1..length |-> IF i % 2 = 1 THEN true ELSE false],
                                  1, length))
        IN  DoArrayCall("appendBooleanArray", flag, length,
                        appendBooleanArray(Fresh(data), dataPosition, flag, value, packetContext))
AppendLongQuatArray ==
    \E flag \in Flags, length \in ArrayLengths :
        LET element == Quat(N(0), N(0), N(0), N(1))
            value == Array(SubSeq([i \in 1..length |-> element], 1, length))
        IN  DoArrayCall("appendQuatArray", flag, length,
                        appendQuatArray(Fresh(data), dataPosition, flag, value, packetContext))
AppendLongVec3Array ==
    \E flag \in Flags, length \in ArrayLengths :
        LET element == Obj3(N(1), N(2), N(3))
            value == Array(SubSeq([i \in 1..length |-> element], 1, length))
        IN  DoArrayCall("appendVec3Array", flag, length,
                        appendVec3Array(Fresh(data), dataPosition, flag, value, packetContext))
AppendLongUuidArray ==
    \E flag \in Flags, length \in ArrayLengths :
        LET element == LastEditedByUuid
            value == Array(SubSeq([i \in 1..length |-> element], 1, length))
        IN  DoArrayCall("appendUuidArray", flag, length,
                        appendUuidArray(Fresh(data), dataPosition, flag, value, packetContext))

ArrayLimitNext ==
    \/ AppendLongBooleanArray \/ AppendLongQuatArray
    \/ AppendLongVec3Array \/ AppendLongUuidArray

\* One call of an array appender, at offset 0 or 1 of a zeroed view.
ArrayLimitInit ==
    /\ \E len \in LongBufferLengths : data = NewDataView(len)
    /\ dataPosition \in { p \in 0..1 : p <= data.byteLength }
    /\ packetContext \in CompletedContexts
    /\ call = NoCall
    /\ ncalls = 0
    /\ limit = 1
    /\ NetOff

SpecArrayLimit == ArrayLimitInit /\ [][ArrayLimitNext]_vars

\* The serialised size of an array of the length.
ArraySize(op, length) ==
    CASE op = "appendBooleanArray" -> 2 + ((length + 7) \div 8)
      [] op = "appendQuatArray" -> 2 + 8 * length
      [] op = "appendVec3Array" -> 2 + 12 * length
      [] op = "appendUuidArray" -> 2 + 16 * length

\* C26: an array appender called with an array of more than 65535 elements
\* returns 0, writes nothing and leaves the packet context as it was,
\* whatever the buffer size, also when the bytes would fit; an array of
\* exactly 65535 elements passes the validation: it is written when it fits,
\* and otherwise the call reports that it did not fit.
C26_ArrayLengthLimit ==
    Called =>
        LET size == ArraySize(call.op, call.length)
        IN  IF call.length > 65535
            THEN /\ call.ret = 0
                 /\ data.wr = {}
                 /\ BytesUnchanged
                 /\ ContextUnchanged
            ELSE IF call.dataPosition + size <= data.byteLength
                 THEN /\ call.ret = size
                      /\ data.wr = call.dataPosition..(call.dataPosition + size - 1)
                      /\ call.flag \in packetContext.propertiesWritten
                 ELSE /\ call.ret = 0
                      /\ data.wr = {}
                      /\ BytesUnchanged
                      /\ packetContext = [call.preContext EXCEPT !.appendState = PARTIAL]

\* A boolean array of 65536 elements has been refused although the 8194
\* bytes it would take fit at its offset.
C26_Witness ==
    /\ call.op = "appendBooleanArray"
    /\ call.length = 65536
    /\ call.dataPosition = 1
    /\ data.byteLength = 8195
    /\ call.ret = 0

(***************************************************************************)
(* The float32 appenders on every kind of number, in every component.      *)
(***************************************************************************)
\* The numbers offered as a float component.
FloatKinds ==
    {"15", "0", "-1", "MAX_FLOAT32", "-MAX_FLOAT32",
     "2^128", "-2^128", "NaN", "Infinity", "-Infinity"}
FloatOf(kind) ==
    CASE kind = "15" -> N(15)
      [] kind = "0" -> N(0)
      [] kind = "-1" -> Neg(1)
      [] kind = "MAX_FLOAT32" -> MAX_FLOAT32
      [] kind = "-MAX_FLOAT32" -> Negate(MAX_FLOAT32)
      [] kind = "2^128" -> TooBigForFloat32
      [] kind = "-2^128" -> Negate(TooBigForFloat32)
      [] kind = "NaN" -> NaN
      [] kind = "Infinity" -> Infinity(FALSE)
      [] kind = "-Infinity" -> Infinity(TRUE)
Vec2Components == {"x", "y"}
Vec3Components == {"x", "y", "z"}
AACubeComponents == {"x", "y", "z", "scale"}
\* Buffer lengths: too short for a float, room for an AACube, room for an
\* array of two vec3 at offset 1.
FloatBufferLengths == {3, 16, 27}

AppendFloat32Of ==
    \E flag \in Flags, kind \in FloatKinds :
        LET value == FloatOf(kind)
        IN  DoCall("appendFloat32Value", flag, value,
                   appendFloat32Value(Fresh(data), dataPosition, flag, value, LITTLE_ENDIAN,
                                      packetContext))
AppendVec2Of ==
    \E flag \in Flags, kind \in FloatKinds, component \in Vec2Components :
        LET value == [Obj2(N(1), N(2)) EXCEPT ![component] = FloatOf(kind)]
        IN  DoCall("appendVec2Value", flag, value,
                   appendVec2Value(Fresh(data), dataPosition, flag, value, packetContext))
AppendVec3Of ==
    \E flag \in Flags, kind \in FloatKinds, component \in Vec3Components :
        LET value == [Obj3(N(1), N(2), N(3)) EXCEPT ![component] = FloatOf(kind)]
        IN  DoCall("appendVec3Value", flag, value,
                   appendVec3Value(Fresh(data), dataPosition, flag, value, packetContext))
AppendVec3ArrayOf ==
    \E flag \in Flags, kind \in FloatKinds, component \in Vec3Components :
        LET value == Array(<<Obj3(N(1), N(2), N(3)),
                             [Obj3(N(1), N(2), N(3)) EXCEPT ![component] = FloatOf(kind)]>>)
        IN  DoCall("appendVec3Array", flag, value,
                   appendVec3Array(Fresh(data), dataPosition, flag, value, packetContext))
AppendAACubeOf ==
    \E flag \in Flags, kind \in FloatKinds, component \in AACubeComponents :
        LET value == IF component = "scale"
                     THEN AACube(Obj3(N(1), N(2), N(3)), FloatOf(kind))
                     ELSE AACube([Obj3(N(1), N(2), N(3)) EXCEPT ![component] = FloatOf(kind)],
                                 N(4))
        IN  DoCall("appendAACubeValue", flag, value,
                   appendAACubeValue(Fresh(data), dataPosition, flag, value, packetContext))

FloatNext ==
    \/ AppendFloat32Of \/ AppendVec2Of \/ AppendVec3Of \/ AppendVec3ArrayOf \/ AppendAACubeOf

\* One call of a float32 appender, at offset 0 or 1 of a zeroed view.
FloatInit ==
    /\ \E len \in FloatBufferLengths : data = NewDataView(len)
    /\ dataPosition \in 0..1
    /\ packetContext \in CompletedContexts
    /\ call = NoCall
    /\ ncalls = 0
    /\ limit = 1
    /\ NetOff

SpecFloat == FloatInit /\ [][FloatNext]_vars

\* The numbers the call's value holds in its float32 fields.
FloatComponents ==
    CASE call.op = "appendFloat32Value" -> {call.value}
      [] call.op = "appendVec2Value" -> {call.value.x, call.value.y}
      [] call.op = "appendVec3Value" -> {call.value.x, call.value.y, call.value.z}
      [] call.op = "appendVec3Array" ->
             UNION { {call.value.elems[i].x, call.value.elems[i].y, call.value.elems[i].z} :
                     i \in 1..Len(call.value.elems) }
      [] call.op = "appendAACubeValue" ->
             {call.value.corner.x, call.value.corner.y, call.value.corner.z, call.value.scale}
\* NaN, an infinity, or a magnitude above 3.4028235e38.
NotFloat32(c) == c.k = "nan" \/ c.k = "inf" \/ ~DigLE(c.mag, MAX_FLOAT32.mag)
NegativeScale ==
    call.op = "appendAACubeValue" /\ call.value.scale.neg /\ call.value.scale.mag # << >>

\* C27: a float32 appender called with a value one of whose float
\* components is NaN, +Infinity, -Infinity or of magnitude above
\* 3.4028235e38, or appendAACubeValue with a negative scale, returns 0,
\* writes nothing and leaves the packet context alone; every other value,
\* scale 0 and magnitude 3.4028235e38 included, is written when it fits.
C27_FloatValidation ==
    Called =>
        IF (\E c \in FloatComponents : NotFloat32(c)) \/ NegativeScale
        THEN /\ call.ret = 0
             /\ data.wr = {}
             /\ BytesUnchanged
             /\ ContextUnchanged
        ELSE IF CallFits
             THEN /\ call.ret = CallSize
                  /\ data.wr = call.dataPosition..(call.dataPosition + CallSize - 1)
             ELSE /\ call.ret = 0
                  /\ packetContext.appendState = PARTIAL

\* An AACube with scale -1 has been refused with room for it.
C27_Witness ==
    /\ call.op = "appendAACubeValue"
    /\ call.value.scale = Neg(1)
    /\ call.dataPosition + 16 <= data.byteLength
    /\ call.ret = 0
    /\ call.preContext.appendState = COMPLETED

(***************************************************************************)
(* The requested properties of an edit (SpecEncode).                       *)
(***************************************************************************)
\* The key of the property is supplied in the properties object: at the top
\* level, or in the object supplied for its property group.
KeySupplied(properties, flag) ==
    CASE flag = PROP_LAST_EDITED_BY -> properties.lastEditedBy # Undefined
      [] flag = PROP_COLOR -> properties.color # Undefined
      [] flag = PROP_GRAB_GRABBABLE ->
             properties.grab # Undefined /\ properties.grab.grabbable # Undefined
      [] flag = PROP_ANIMATION_FPS ->
             properties.animation # Undefined /\ properties.animation.fps # Undefined

\* C28: the flag set that getChangedProperties returns has a property's flag
\* exactly if the property's key is supplied, keys of property groups
\* included; when no property key is supplied it is empty and getHasProperty
\* is false for every property of the enumeration.
C28_ChangedProperties ==
    Encoded =>
        LET changedProperties == getChangedProperties(call.properties)
        IN  /\ call.requestedProperties = changedProperties
            /\ \A i \in 1..Len(EntityPropertyList) :
                   getHasProperty(changedProperties, EntityPropertyList[i])
                       <=> KeySupplied(call.properties, EntityPropertyList[i])
            /\ changedProperties \subseteq { EntityPropertyList[i] : i \in 1..Len(EntityPropertyList) }
            /\ isEmpty(changedProperties)
                   <=> \A i \in 1..Len(EntityPropertyList) :
                           ~KeySupplied(call.properties, EntityPropertyList[i])

\* An edit whose properties hold a grab group with its key and an animation
\* group without the key of the animation rate.
C28_Witness ==
    /\ Encoded
    /\ call.properties.grab # Undefined
    /\ call.properties.animation # Undefined
    /\ call.properties.animation.fps = Undefined
    /\ call.properties.color = Undefined
    /\ call.properties.lastEditedBy = Undefined
    /\ call.requestedProperties = {PROP_GRAB_GRABBABLE}

(***************************************************************************)
(* Two encoder calls with the same inputs (SpecEncodeTwice).               *)
(***************************************************************************)
EncodedAgain == call.op = "encodeAgain"

Shape ==
    { Str(<<67, 105, 114, 99, 108, 101>>),
      Str(<<67, 111, 110, 101>>),
      Str(<<67, 117, 98, 101>>),
      Str(<<67, 121, 108, 105, 110, 100, 101, 114>>),
      Str(<<68, 111, 100, 101, 99, 97, 104, 101, 100, 114, 111, 110>>),
      Str(<<72, 101, 120, 97, 103, 111, 110>>),
      Str(<<73, 99, 111, 115, 97, 104, 101, 100, 114, 111, 110>>),
      Str(<<79, 99, 116, 97, 103, 111, 110>>),
      Str(<<79, 99, 116, 97, 104, 101, 100, 114, 111, 110>>),
      Str(<<81, 117, 97, 100>>),
      Str(<<83, 112, 104, 101, 114, 101>>),
      Str(<<84, 101, 116, 114, 97, 104, 101, 100, 114, 111, 110>>),
      Str(<<84, 111, 114, 117, 115>>),
      Str(<<84, 114, 105, 97, 110, 103, 108, 101>>) }

\* Colors written: within 0..255, and outside it where setUint8 wraps.
ShapeColors ==
    { Color(N(240), N(37), N(148)), Color(N(0), N(0), N(0)), Color(N(255), N(255), N(255)),
      Color(N(0), N(255), N(128)), Color(N(300), Neg(1), N(0)), Color(N(256), N(0), N(0)) }

\* Strings written that are no Shape: the empty string, one of two- and
\* three-byte code points, one that starts with a byte order mark.
OtherStrings ==
    { Str(<< >>), Str(<<233, 8364>>), Str(<<65279, 67, 117, 98, 101>>), Undefined }

WrittenStrings == Shape \cup OtherStrings

\* The property flags handed to the reader.
ReadFlags ==
    { {PROP_COLOR}, {PROP_SHAPE}, {PROP_ALPHA}, {PROP_COLOR, PROP_SHAPE},
      {PROP_COLOR, PROP_ALPHA, PROP_SHAPE}, {} }

ShapeBufferLengths == {4, 16, 19}

WriteColor ==
    \E value \in ShapeColors :
        /\ call = NoCall
        /\ DoCall("appendColorValue", PROP_COLOR, value,
                  appendColorValue(Fresh(data), dataPosition, PROP_COLOR, value, packetContext))
WriteShape ==
    \E value \in WrittenStrings :
        /\ call = NoCall
        /\ DoCall("appendStringValue", PROP_SHAPE, value,
                  appendStringValue(Fresh(data), dataPosition, PROP_SHAPE, value, packetContext))

\* The fields of a Shape entity as they follow each other in a packet.
ShapeFields ==
    { [propertyFlags |-> {PROP_COLOR, PROP_ALPHA, PROP_SHAPE},
       color |-> Color(N(240), N(37), N(148)), alpha |-> N(1), shape |-> Str(<<67, 117, 98, 101>>)],
      [propertyFlags |-> {PROP_COLOR, PROP_SHAPE},
       color |-> Color(N(0), N(255), N(128)), alpha |-> N(1), shape |-> Str(<<81, 117, 97, 100>>)],
      [propertyFlags |-> {PROP_ALPHA, PROP_SHAPE},
       color |-> Color(N(240), N(37), N(148)), alpha |-> N(1), shape |-> Str(<<67, 111, 110, 101>>)],
      [propertyFlags |-> {PROP_COLOR, PROP_ALPHA},
       color |-> Color(N(240), N(37), N(148)), alpha |-> N(0), shape |-> Str(<<67, 117, 98, 101>>)],
      [propertyFlags |-> {PROP_ALPHA},
       color |-> Color(N(240), N(37), N(148)), alpha |-> N(1), shape |-> Str(<<67, 117, 98, 101>>)],
      [propertyFlags |-> {},
       color |-> Color(N(240), N(37), N(148)), alpha |-> N(1), shape |-> Str(<<67, 117, 98, 101>>)] }

\* The flagged fields written one after the other: color, alpha, shape.
WriteShapeFields ==
    \E fields \in ShapeFields :
        LET Skipped(dv, ctx) == [data |-> dv, packetContext |-> ctx, ret |-> 0, threw |-> FALSE]
            c == IF PROP_COLOR \in fields.propertyFlags
                 THEN appendColorValue(Fresh(data), dataPosition, PROP_COLOR, fields.color,
                                       packetContext)
                 ELSE Skipped(Fresh(data), packetContext)
            a == IF PROP_ALPHA \in fields.propertyFlags
                 THEN appendFloat32Value(c.data, dataPosition + c.ret, PROP_ALPHA, fields.alpha,
                                         LITTLE_ENDIAN, c.packetContext)
                 ELSE Skipped(c.data, c.packetContext)
            t == IF PROP_SHAPE \in fields.propertyFlags
                 THEN appendStringValue(a.data, dataPosition + c.ret + a.ret, PROP_SHAPE,
                                        fields.shape, a.packetContext)
                 ELSE Skipped(a.data, a.packetContext)
        IN  /\ call = NoCall
            /\ ncalls < limit
            /\ data' = t.data
            /\ packetContext' = t.packetContext
            /\ dataPosition' = dataPosition + c.ret + a.ret + t.ret
            /\ call' = [op |-> "writeShapeFields", dataPosition |-> dataPosition,
                        value |-> fields, ret |-> c.ret + a.ret + t.ret,
                        written |-> t.packetContext.propertiesWritten]
            /\ ncalls' = ncalls + 1
            /\ UNCHANGED limit
            /\ UNCHANGED netVars

\* The reader at the position the appender wrote at.
ReadShapeData ==
    \E propertyFlags \in ReadFlags :
        /\ call.op \in {"appendColorValue", "appendStringValue", "writeShapeFields"}
        /\ ncalls < limit
        /\ call' = [op |-> "readEntitySubclassDataFromBuffer", written |-> call,
                    propertyFlags |-> propertyFlags,
                    result |-> readEntitySubclassDataFromBuffer(data, call.dataPosition,
                                                                propertyFlags)]
        /\ ncalls' = ncalls + 1
        /\ UNCHANGED <<data, dataPosition, packetContext, limit>>
        /\ UNCHANGED netVars

ShapeReadNext == WriteColor \/ WriteShape \/ WriteShapeFields \/ ReadShapeData

ShapeReadInit ==
    /\ data \in { NewDataView(len) : len \in ShapeBufferLengths }
    /\ dataPosition \in {0, MaxOffset}
    /\ packetContext = [propertiesToWrite |-> {PROP_COLOR, PROP_SHAPE}, propertiesWritten |-> {},
                        propertyCount |-> 0, appendState |-> COMPLETED]
    /\ call = NoCall
    /\ ncalls = 0
    /\ limit = 2
    /\ NetOff

SpecShapeRead == ShapeReadInit /\ [][ShapeReadNext]_vars

ShapeDataRead == call.op = "readEntitySubclassDataFromBuffer"
\* A color whose components are integers in 0..255.
IsByteColor(value) ==
    \A c \in {value.red, value.green, value.blue} : NumLE(N(0), c) /\ NumLE(c, N(255))

\* C30: the bytes appendColorValue wrote for a color with integer components
\* in 0..255, read by readEntitySubclassDataFromBuffer with only PROP_COLOR
\* flagged, give that color, and the bytes appendStringValue wrote for a
\* Shape string, read with only PROP_SHAPE flagged, give that string; in both
\* cases bytesRead is the number of bytes written.
C30_ShapeFieldsRoundTrip ==
    (ShapeDataRead /\ call.written.ret > 0) =>
        /\ ( /\ call.written.op = "appendColorValue"
             /\ IsByteColor(call.written.value)
             /\ call.propertyFlags = {PROP_COLOR} )
               => /\ ~call.result.threw
                  /\ call.result.properties.color = call.written.value
                  /\ call.result.bytesRead = call.written.ret
        /\ ( /\ call.written.op = "appendStringValue"
             /\ call.written.value \in Shape
             /\ call.propertyFlags = {PROP_SHAPE} )
               => /\ ~call.result.threw
                  /\ call.result.properties.shape = call.written.value
                  /\ call.result.bytesRead = call.written.ret

\* "Dodecahedron" written at an offset and read back with PROP_SHAPE alone.
C30_Witness ==
    /\ ShapeDataRead
    /\ call.written.op = "appendStringValue"
    /\ call.written.value = Str(<<68, 111, 100, 101, 99, 97, 104, 101, 100, 114, 111, 110>>)
    /\ call.written.dataPosition = MaxOffset
    /\ call.written.ret = 14
    /\ call.propertyFlags = {PROP_SHAPE}
    /\ call.result.bytesRead = 14

ShortPayloads ==
    { [kind |-> "ArrayBuffer", fill |-> 7, length |-> 0],
      [kind |-> "ArrayBuffer", fill |-> 7, length |-> 1],
      [kind |-> "ArrayBuffer", fill |-> 200, length |-> 3],
      [kind |-> "string", fill |-> 65, length |-> 0],
      [kind |-> "string", fill |-> 65, length |-> 2],
      [kind |-> "string", fill |-> 233, length |-> 2],
      [kind |-> "string", fill |-> 8364, length |-> 1],
      [kind |-> "undefined", fill |-> 0, length |-> 0] }
LongPayloads ==
    { [kind |-> "ArrayBuffer", fill |-> 7, length |-> 65535],
      [kind |-> "ArrayBuffer", fill |-> 7, length |-> 65536],
      [kind |-> "string", fill |-> 65, length |-> 65535],
      [kind |-> "string", fill |-> 65, length |-> 65536],
      [kind |-> "string", fill |-> 233, length |-> 32768] }
ShortViewLengths == {2, 3, 4, 5, 6, 7, 8}
LongViewLengths == {65537, 65538}

\* The value a payload describes.
PayloadValue(p) ==
    LET elements == SubSeq([i \in 1..p.length |-> p.fill], 1, p.length)
    IN  CASE p.kind = "ArrayBuffer" -> ArrayBuffer(elements)
          [] p.kind = "string" -> Str(elements)
          [] OTHER -> Undefined

\* The bytes one element of a payload takes.
ElementBytes(p) ==
    IF p.kind = "ArrayBuffer" \/ p.fill < 128 THEN 1
    ELSE IF p.fill < 2048 THEN 2 ELSE IF p.fill < 65536 THEN 3 ELSE 4

\* The payload's bytes lie in the view from byteOffset on.
PayloadAt(dv, byteOffset, p) ==
    LET element == IF p.kind = "ArrayBuffer" THEN <<p.fill>> ELSE Utf8OfCodePoint(p.fill)
    IN  \A j \in 1..(p.length * Len(element)) :
            dv.bytes[byteOffset + j] = element[((j - 1) % Len(element)) + 1]

\* One call of the appender of the payload's kind on a view, at position.
\* Of the value, its description and its length in bytes are recorded; of
\* the view, its length and, after a write, the 16-bit length read back at
\* the position and whether the payload follows it.
AppendPayload(view, position, flag, p) ==
    LET value == PayloadValue(p)
        r == IF p.kind = "ArrayBuffer"
             THEN appendArrayBufferValue(view, position, flag, value, packetContext)
             ELSE appendStringValue(view, position, flag, value, packetContext)
    IN  [data |-> r.data, packetContext |-> r.packetContext, ret |-> r.ret,
         call |-> [op |-> IF p.kind = "ArrayBuffer" THEN "appendArrayBufferValue"
                          ELSE "appendStringValue",
                   dataPosition |-> position, flag |-> flag, payload |-> p,
                   byteLength |-> p.length * ElementBytes(p),
                   viewLength |-> view.byteLength,
                   ret |-> r.ret, threw |-> r.threw, preContext |-> packetContext,
                   lengthPrefix |-> IF r.ret > 0 THEN getUint16(r.data, position, LITTLE_ENDIAN)
                                    ELSE 0,
                   payloadFollows |-> r.ret > 0 /\ PayloadAt(r.data, position + 2, p)]]

\* A short payload into the packet at the write position.
AppendShortPayload ==
    \E flag \in Flags, p \in ShortPayloads :
        LET a == AppendPayload(Fresh(data), dataPosition, flag, p)
        IN  /\ ncalls < limit
            /\ data' = a.data
            /\ packetContext' = a.packetContext
            /\ dataPosition' = dataPosition + a.ret
            /\ call' = a.call
            /\ ncalls' = ncalls + 1
            /\ UNCHANGED limit
            /\ UNCHANGED netVars

\* A long payload at the start of a long view that is allocated for the
\* call and dropped after it: the state keeps what call records of it.
AppendLongPayload ==
    \E len \in LongViewLengths, p \in LongPayloads :
        LET a == AppendPayload(NewDataView(len), 0, PROP_COLOR, p)
        IN  /\ data.byteLength = 0
            /\ ncalls < limit
            /\ packetContext' = a.packetContext
            /\ call' = a.call
            /\ ncalls' = ncalls + 1
            /\ UNCHANGED <<data, dataPosition, limit>>
            /\ UNCHANGED netVars

LengthPrefixNext == AppendShortPayload \/ AppendLongPayload

\* A short packet, or none yet.
LengthPrefixInit ==
    /\ \/ /\ data \in { NewDataView(len) : len \in ShortViewLengths }
          /\ dataPosition \in {0, 1}
          /\ packetContext \in CompletedContexts
       \/ /\ data = NewDataView(0)
          /\ dataPosition = 0
          /\ packetContext = [propertiesToWrite |-> {PROP_COLOR}, propertiesWritten |-> {},
                              propertyCount |-> 0, appendState |-> COMPLETED]
    /\ call = NoCall
    /\ ncalls = 0
    /\ limit = 1
    /\ NetOff

SpecLengthPrefix == LengthPrefixInit /\ [][LengthPrefixNext]_vars

\* A string or byte array was accepted and written.
PayloadWritten == call.op \in {"appendArrayBufferValue", "appendStringValue"} /\ call.ret > 0

Uint8Inputs ==
    { N(0), N(7), N(255), N(256), N(263), Neg(1), Num(TRUE, << >>), NaN, Infinity(FALSE),
      BigInt(FALSE, <<7>>), Undefined }
Uint16Inputs ==
    { N(0), N(258), N(65535), N(65536), N(65794), Neg(1), NaN, Infinity(TRUE), Undefined }
Uint32Inputs ==
    { N(0), Num(FALSE, <<4, 3, 2, 1>>), Num(FALSE, <<255, 255, 255, 255>>),
      Num(FALSE, <<0, 0, 0, 0, 1>>), Num(FALSE, <<4, 3, 2, 1, 1>>), Neg(1), NaN,
      Infinity(FALSE), BigInt(FALSE, <<7>>) }
Uint64Inputs ==
    { BigInt(FALSE, << >>), BigInt(FALSE, <<8, 7, 6, 5, 4, 3, 2, 1>>),
      BigInt(FALSE, <<255, 255, 255, 255, 255, 255, 255, 255>>),
      BigInt(FALSE, <<0, 0, 0, 0, 0, 0, 0, 0, 1>>),
      BigInt(FALSE, <<8, 7, 6, 5, 4, 3, 2, 1, 1>>), BigInt(TRUE, <<1>>), N(5), Undefined }
\* Buffer lengths: room for one byte, for eight, for eight at offset 1 and more.
UintBufferLengths == {1, 8, 10}

\* One call; the byte order asked for is recorded with it.
DoUintCall(op, flag, value, littleEndian, r) ==
    /\ ncalls < limit
    /\ data' = r.data
    /\ packetContext' = r.packetContext
    /\ dataPosition' = dataPosition + r.ret
    /\ call' = [op |-> op, dataPosition |-> dataPosition, flag |-> flag, value |-> value,
                littleEndian |-> littleEndian, ret |-> r.ret, threw |-> r.threw,
                preBytes |-> data.bytes, preContext |-> packetContext]
    /\ ncalls' = ncalls + 1
    /\ UNCHANGED limit
    /\ UNCHANGED netVars

AppendUint8Of ==
    \E flag \in Flags, value \in Uint8Inputs :
        DoUintCall("appendUint8Value", flag, value, LITTLE_ENDIAN,
                   appendUint8Value(Fresh(data), dataPosition, flag, value, packetContext))
AppendUint16Of ==
    \E flag \in Flags, value \in Uint16Inputs, littleEndian \in BOOLEAN :
        DoUintCall("appendUint16Value", flag, value, littleEndian,
                   appendUint16Value(Fresh(data), dataPosition, flag, value, littleEndian,
                                     packetContext))
AppendUint32Of ==
    \E flag \in Flags, value \in Uint32Inputs, littleEndian \in BOOLEAN :
        DoUintCall("appendUint32Value", flag, value, littleEndian,
                   appendUint32Value(Fresh(data), dataPosition, flag, value, littleEndian,
                                     packetContext))
AppendUint64Of ==
    \E flag \in Flags, value \in Uint64Inputs, littleEndian \in BOOLEAN :
        DoUintCall("appendUint64Value", flag, value, littleEndian,
                   appendUint64Value(Fresh(data), dataPosition, flag, value, littleEndian,
                                     packetContext))

UintNext == AppendUint8Of \/ AppendUint16Of \/ AppendUint32Of \/ AppendUint64Of

\* One call of an unsigned-integer appender, at offset 0 or 1 of a zeroed view.
UintInit ==
    /\ \E len \in UintBufferLengths : data = NewDataView(len)
    /\ dataPosition \in 0..1
    /\ packetContext \in CompletedContexts
    /\ call = NoCall
    /\ ncalls = 0
    /\ limit = 1
    /\ NetOff

SpecUint == UintInit /\ [][UintNext]_vars

\* The bytes of the appender's wire type.
WireBytes ==
    CASE call.op = "appendUint8Value" -> 1
      [] call.op = "appendUint16Value" -> 2
      [] call.op = "appendUint32Value" -> 4
      [] call.op = "appendUint64Value" -> 8
\* The magnitude of the call's value, least significant byte first, when the
\* value is of the JavaScript type of the appender (number, bigint for 64
\* bits), finite and not negative; its length is its number of bytes.
WireMagnitude ==
    IF call.op = "appendUint64Value" THEN call.value.big ELSE call.value.mag
InWireRange ==
    /\ call.value.t = (IF call.op = "appendUint64Value" THEN "bigint" ELSE "number")
    /\ call.op # "appendUint64Value" => call.value.k = "fin"
    /\ WireMagnitude = << >> \/ ~call.value.neg
    /\ Len(WireMagnitude) <= WireBytes

\* C33: appendUint8Value, appendUint16Value, appendUint32Value and
\* appendUint64Value accept a value exactly if it lies in 0..2^w - 1 for the
\* w bits of their wire type; an accepted value is written as it is when it
\* fits, and any other value returns 0 with nothing written, so no value is
\* written modulo 2^w.
C33_UintRanges ==
    Called =>
        IF InWireRange
        THEN IF call.dataPosition + WireBytes <= data.byteLength
             THEN /\ call.ret = WireBytes
                  /\ BytesAt(call.dataPosition, call.dataPosition + WireBytes - 1)
                         = Ordered(LowDigits(WireMagnitude, WireBytes), call.littleEndian)
             ELSE /\ call.ret = 0
                  /\ BytesUnchanged
                  /\ packetContext.appendState = PARTIAL
        ELSE /\ call.ret = 0
             /\ data.wr = {}
             /\ BytesUnchanged
             /\ ContextUnchanged

\* 2^32 has been refused by appendUint32Value with room for four bytes.
C33_Witness ==
    /\ call.op = "appendUint32Value"
    /\ call.value = Num(FALSE, <<0, 0, 0, 0, 1>>)
    /\ call.dataPosition + 4 <= data.byteLength
    /\ call.ret = 0
    /\ BytesUnchanged

(***************************************************************************)
(* appendColorValue and the range of a color's components (SpecAppend).    *)
(***************************************************************************)
ColorAppended == call.op = "appendColorValue"
\* The call's color has three numbers, each an integer in 0..255.
ColorInRange ==
    /\ \A c \in {call.value.red, call.value.green, call.value.blue} : typeof(c) = "number"
    /\ IsByteColor(call.value)

\* C34: appendColorValue validates the range of the color: a color with a
\* component outside 0..255 returns 0 and leaves the packet context and the
\* buffer unchanged, so the three bytes written are always the red, green
\* and blue given.
C34_ColorRangeValidated ==
    ColorAppended =>
        /\ ~ColorInRange => (call.ret = 0 /\ ContextUnchanged /\ BytesUnchanged)
        /\ call.ret > 0 =>
               /\ ColorInRange
               /\ BytesAt(call.dataPosition, call.dataPosition + 2)
                      = << LowDigits(call.value.red.mag, 1)[1],
                           LowDigits(call.value.green.mag, 1)[1],
                           LowDigits(call.value.blue.mag, 1)[1] >>

\* The color (300, -1, 0) has been written as the bytes 44, 255, 0.
C34_Witness ==
    /\ ColorAppended
    /\ call.value = Color(N(300), Neg(1), N(0))
    /\ call.ret = 3
    /\ BytesAt(call.dataPosition, call.dataPosition + 2) = <<44, 255, 0>>

(***************************************************************************)
(* setBigUint128: values above the maximum, and byte order (SpecU128).     *)
(***************************************************************************)
\* setBigUint128 has been called where its sixteen bytes fit.
Set128InView ==
    /\ call.op = "setBigUint128"
    /\ call.byteOffset + 16 <= data.byteLength
\* The sixteen bytes at the call's offset.
Bytes128 == [i \in 1..16 |-> data.bytes[call.byteOffset + i]]

\* C35: setBigUint128 with a value above 2^128 - 1 writes sixteen zero
\* bytes in either byte order, and getBigUint128 at the same offset then
\* returns 0.
C35_TooLargeWritesZero ==
    /\ (Set128InView /\ ~DigLE(call.value, MAX_U128_VALUE)) =>
           /\ ~call.threw
           /\ Bytes128 = [i \in 1..16 |-> 0]
           /\ data.wr = {call.byteOffset + i : i \in 0..15}
    /\ (/\ call.op = "getBigUint128"
        /\ call.prev.op = "setBigUint128"
        /\ call.prev.byteOffset = call.byteOffset
        /\ call.byteOffset + 16 <= data.byteLength
        /\ ~DigLE(call.prev.value, MAX_U128_VALUE)) =>
           (~call.threw /\ call.result = << >>)

\* 2^128 + 0x100f...0201 was written over earlier content at offset 3 and
\* read back as 0.
C35_Witness ==
    /\ call.op = "getBigUint128"
    /\ call.prev.op = "setBigUint128"
    /\ call.prev.byteOffset = 3
    /\ call.byteOffset = 3
    /\ call.prev.value = [i \in 1..17 |-> i]
    /\ call.result = << >>
    /\ data.bytes[3] = 255
    /\ data.bytes[4] = 0

\* C36: for every value in 0..2^128 - 1 the sixteen bytes setBigUint128
\* writes in little-endian form are the reverse of those it writes in
\* big-endian form: the big-endian write puts the most significant byte at
\* byteOffset, the little-endian write the least significant.
C36_LittleEndianIsReverse ==
    (Set128InView /\ DigLE(call.value, MAX_U128_VALUE)) =>
        LET other == setBigUint128(Fresh(data), call.byteOffset, call.value, ~call.littleEndian)
        IN  /\ Bytes128 = Reverse([i \in 1..16 |-> other.bytes[call.byteOffset + i]])
            /\ Bytes128[1] = DigitAt(call.value, IF call.littleEndian THEN 0 ELSE 15)
            /\ Bytes128[16] = DigitAt(call.value, IF call.littleEndian THEN 15 ELSE 0)

\* 0x100f0e...0201 was written little-endian at offset 2: the byte 0x01
\* comes first and 0x10 last.
C36_Witness ==
    /\ Set128InView
    /\ call.littleEndian
    /\ call.byteOffset = 2
    /\ call.value = [i \in 1..16 |-> i]
    /\ data.bytes[3] = 1
    /\ data.bytes[18] = 16

(***************************************************************************)
(* The packet context over a sequence of appender calls with its history   *)
(* (SpecContextSequence).                                                  *)
(***************************************************************************)
\* Appenders of 1, 2, 3, 16 and 18 bytes.
CountedAppenders ==
    { "appendBooleanValue", "appendUint16Value", "appendColorValue", "appendAACubeValue",
      "appendUuidValue" }
CountedFlags == {PROP_LAST_EDITED_BY, PROP_GRAB_GRABBABLE, PROP_COLOR}
\* A packet with room for three small values, and one with room for a large one.
CountedBufferLengths == {4, 18}

\* One call; the record keeps the flags passed so far, whether one was passed
\* twice, and the number of calls that returned a byte count other than 0.
AppendCounted ==
    \E op \in CountedAppenders, flag \in CountedFlags :
        \E value \in SequenceValues[op] :
            LET r == CallAppender(op, Fresh(data), dataPosition, flag, value, LITTLE_ENDIAN,
                                  packetContext)
            IN  /\ ncalls < limit
                /\ data' = r.data
                /\ packetContext' = r.packetContext
                /\ dataPosition' = dataPosition + r.ret
                /\ call' = [op |-> op, dataPosition |-> dataPosition, flag |-> flag,
                            value |-> value, ret |-> r.ret, threw |-> r.threw,
                            preBytes |-> data.bytes, preContext |-> packetContext,
                            passed |-> call.passed \cup {flag},
                            repeated |-> call.repeated \/ flag \in call.passed,
                            nonZero |-> call.nonZero + (IF r.ret # 0 THEN 1 ELSE 0)]
                /\ ncalls' = ncalls + 1
                /\ UNCHANGED limit
                /\ UNCHANGED netVars

\* A new packet context: nothing written, nothing counted; the encoder starts
\* it as COMPLETED, and NONE is the other state an appender never assigns.
CountedInit ==
    /\ \E len \in CountedBufferLengths : data = NewDataView(len)
    /\ dataPosition = 0
    /\ \E appendState \in {COMPLETED, NONE} :
           packetContext = [propertiesToWrite |-> CountedFlags, propertiesWritten |-> {},
                            propertyCount |-> 0, appendState |-> appendState]
    /\ call = [op |-> "none", passed |-> {}, repeated |-> FALSE, nonZero |-> 0]
    /\ ncalls = 0
    /\ limit = MaxCalls + 1
    /\ NetOff

SpecContextSequence == CountedInit /\ [][AppendCounted]_vars

\* C37: from propertyCount 0 and no property written, after any sequence of
\* appender calls that passes each flag at most once, propertyCount is the
\* number of flags in propertiesWritten and the number of calls that
\* returned a byte count other than 0.
C37_PropertyCount ==
    ~call.repeated =>
        /\ packetContext.propertyCount = Cardinality(packetContext.propertiesWritten)
        /\ packetContext.propertyCount = call.nonZero

\* Three calls with three different flags, of which two wrote their value
\* and one did not.
C37_Witness ==
    /\ ~call.repeated
    /\ call.passed = CountedFlags
    /\ call.nonZero = 2
    /\ packetContext.propertyCount = 2

\* C38: PARTIAL is the only value an appender assigns to appendState, so
\* once an append did not fit appendState stays PARTIAL through every later
\* call, those that write their value included.
C38_PartialIsSticky ==
    [][/\ packetContext'.appendState \in {packetContext.appendState, PARTIAL}
       /\ packetContext.appendState = PARTIAL => packetContext'.appendState = PARTIAL]_vars

\* A value has been written on a context that was already PARTIAL.
C38_Witness ==
    /\ Called
    /\ call.ret > 0
    /\ call.preContext.appendState = PARTIAL
    /\ packetContext.appendState = PARTIAL

(***************************************************************************)
(* Reading the ring gizmo's properties (SpecRingRead).                     *)
(***************************************************************************)
\* The ring property flags with the size of their field in a packet.
RingFieldBytes ==
    [PROP_START_ANGLE |-> 4, PROP_END_ANGLE |-> 4, PROP_INNER_RADIUS |-> 4,
     PROP_INNER_START_COLOR |-> 3, PROP_INNER_END_COLOR |-> 3,
     PROP_OUTER_START_COLOR |-> 3, PROP_OUTER_END_COLOR |-> 3,
     PROP_INNER_START_ALPHA |-> 4, PROP_INNER_END_ALPHA |-> 4,
     PROP_OUTER_START_ALPHA |-> 4, PROP_OUTER_END_ALPHA |-> 4,
     PROP_HAS_TICK_MARKS |-> 1,
     PROP_MAJOR_TICK_MARKS_ANGLE |-> 4, PROP_MINOR_TICK_MARKS_ANGLE |-> 4,
     PROP_MAJOR_TICK_MARKS_LENGTH |-> 4, PROP_MINOR_TICK_MARKS_LENGTH |-> 4,
     PROP_MAJOR_TICK_MARKS_COLOR |-> 3, PROP_MINOR_TICK_MARKS_COLOR |-> 3]
RingFlags == DOMAIN RingFieldBytes
\* Flags of other property groups, by identifier.
OtherGroupFlags == {"PROP_COLOR", "PROP_PULSE_MIN"}

\* No flag, one flag, all but one, all eighteen, a few mixtures, and flags
\* of other groups with and without ring flags.
RingFlagSets ==
    {{}, RingFlags, OtherGroupFlags, RingFlags \cup OtherGroupFlags}
    \cup {{f} : f \in RingFlags}
    \cup {RingFlags \ {f} : f \in RingFlags}
    \cup {{f, "PROP_COLOR"} : f \in RingFlags}
    \cup { {"PROP_START_ANGLE", "PROP_INNER_START_COLOR", "PROP_HAS_TICK_MARKS"},
           {"PROP_END_ANGLE", "PROP_MINOR_TICK_MARKS_COLOR"},
           {"PROP_HAS_TICK_MARKS", "PROP_MAJOR_TICK_MARKS_COLOR", "PROP_OUTER_END_ALPHA",
            "PROP_PULSE_MIN"} }
\* An empty view, one shorter than a field, and one that holds all the fields.
RingBufferLengths == {0, 2, 64}
RingPositions == {0, 1}

ReadRingData ==
    \E propertyFlags \in RingFlagSets :
        /\ ncalls < limit
        /\ call' = [op |-> "RingGizmoPropertyGroup.readEntitySubclassDataFromBuffer",
                    position |-> dataPosition, propertyFlags |-> propertyFlags,
                    result |-> RingGizmoPropertyGroup_readEntitySubclassDataFromBuffer(
                                   data, dataPosition, propertyFlags)]
        /\ ncalls' = ncalls + 1
        /\ UNCHANGED <<data, dataPosition, packetContext, limit>>
        /\ UNCHANGED netVars

\* A received packet of any content: zeroes, or every byte 0xff.
RingReadInit ==
    /\ \E len \in RingBufferLengths :
           data \in {NewDataView(len),
                     [NewDataView(len) EXCEPT !.bytes = [i \in 1..len |-> 255]]}
    /\ dataPosition \in RingPositions
    /\ packetContext = [propertiesToWrite |-> {}, propertiesWritten |-> {},
                        propertyCount |-> 0, appendState |-> COMPLETED]
    /\ call = NoCall
    /\ ncalls = 0
    /\ limit = 1
    /\ NetOff

SpecRingRead == RingReadInit /\ [][ReadRingData]_vars

RECURSIVE SumOfFieldBytes(_)
\* The sum of the field sizes of a set of ring flags.
SumOfFieldBytes(flags) ==
    IF flags = {} THEN 0
    ELSE LET f == CHOOSE g \in flags : TRUE
         IN  RingFieldBytes[f] + SumOfFieldBytes(flags \ {f})

RingDataRead == call.op = "RingGizmoPropertyGroup.readEntitySubclassDataFromBuffer"

\* C39: RingGizmoPropertyGroup.readEntitySubclassDataFromBuffer returns as
\* bytesRead the sum of the field sizes of the ring flags that are set (0
\* for none, 63 for all eighteen), whatever the buffer holds and however
\* short it is, and its properties are always the empty object.
C39_RingBytesRead ==
    RingDataRead =>
        /\ ~call.result.threw
        /\ call.result.bytesRead = SumOfFieldBytes(call.propertyFlags \cap RingFlags)
        /\ call.propertyFlags \cap RingFlags = {} => call.result.bytesRead = 0
        /\ RingFlags \subseteq call.propertyFlags => call.result.bytesRead = 63
        /\ call.result.properties = << >>

\* All eighteen ring flags were set on an empty view: 63 bytes passed over.
C39_Witness ==
    /\ RingDataRead
    /\ call.propertyFlags = RingFlags
    /\ data.byteLength = 0
    /\ call.result.bytesRead = 63
====
